---- MODULE Spec2Model ----
(***************************************************************************)
(* Cross-schema user identity resolution of the dealsnow backend:           *)
(*   manage_users.py        resolve_user_id, resolve_numeric_id_cross_schema,*)
(*                          auto_create_user_in_india / _in_master           *)
(*   bookmark_management.py resolve_user_id_fast,                            *)
(*                          auto_create_user_cross_schema                    *)
(* Every SQL statement a request issues is one atomic step; requests of     *)
(* other Lambda invocations (signup, preference update) interleave between  *)
(* the statements of a resolution.                                          *)
(***************************************************************************)
EXTENDS Integers, Sequences, FiniteSets, TLC

VARIABLES
    users,      \* users[s]: the rows of table s.users
    nextId,     \* nextId[s]: next value of the serial id column of s.users
    pc,         \* pc[p]: the statement request p executes next
    call,       \* call[p]: the arguments of the resolve call of request p
    loc,        \* loc[p]: local variables of the call (user_str, email, source row, new id)
    res,        \* res[p]: the (user_id, error_response) tuple returned
    log,        \* log[p]: the storage statements the call has issued, in order
    flt,        \* flt[p]: the storage failure injected into the call, if any
    prev,       \* prev[p]: what the client's previous call returned, when the call follows it up
    snap,       \* snap[p]: the tables when the call began, until another request writes
    bookmarks,  \* bookmarks[s]: the rows of table s.user_bookmarks
    nextBm,     \* nextBm[s]: next value of the serial id column of s.user_bookmarks
    req,        \* req[p]: the bookmark request that request p serves
    reply,      \* reply[p]: the response of the bookmark handler
    promodb,    \* the committed product labels and promo history of the schema run_update works on
    run,        \* the run_update execution in progress, with its open transaction
    day,        \* the day the clock shows
    labelled,   \* the promo labels that runs have committed, with run number and day
    staging,    \* the product_key values of the rows of {schema}.product_staging
    production, \* the product_key values that move_to_production has committed to {schema}.product
    move        \* the move_to_production call in progress, with its open transaction

\* the state of the bookmark handler
bmvars == <<bookmarks, nextBm, req, reply>>

\* the state of update_promo_products_daily.py
pmvars == <<promodb, run, day, labelled>>
\* the state of move_to_production of update_product_data.py
mpvars == <<staging, production, move>>
\* the state of the batch jobs
batchvars == <<pmvars, mpvars>>

uservars == <<users, nextId, pc, call, loc, res, log, flt, prev, snap, bmvars>>
vars == <<users, nextId, pc, call, loc, res, log, flt, prev, snap, bmvars, batchvars>>

(***************************************************************************)
(* Bounds and input sets                                                    *)
(***************************************************************************)
\* largest numeric identifier a request carries
MaxId == 2

Procs == {1, 2}
Schemas == {"deals_master", "deals_india"}
Emails == {"a@x.com", "b@x.com"}
Names == {"n1", "n2"}
Prefs == {"p1", "p2"}
\* the name and preferred_categories of the signup requests
SignupBodies == {[name |-> "n1", preferred_categories |-> "p1"],
                 [name |-> "n2", preferred_categories |-> "p2"]}
\* an email made of decimal digits only: signup takes any non-empty email
DigitEmails == {"2"}
Resolvers == {"resolve_user_id", "resolve_user_id_fast"}

\* str(n) of the ids the model uses
Numerals == <<"1", "2", "3", "4">>
Str(n) == Numerals[n]
NumericIdents == {Str(n) : n \in 1..MaxId}
\* a numeric identifier with surrounding whitespace
PaddedIdents == {" 1 "}
Identifiers == NumericIdents \cup Emails \cup PaddedIdents

\* str.strip()
strip(s) == IF s = " 1 " THEN "1" ELSE s
\* str.isdigit()
isdigit(s) == \E n \in 1..Len(Numerals) : Numerals[n] = s
\* int(s), for s.isdigit()
int(s) == CHOOSE n \in 1..Len(Numerals) : Numerals[n] = s

opposite_schema(schema) == IF schema = "deals_india" THEN "deals_master" ELSE "deals_india"

(***************************************************************************)
(* Rows and responses                                                       *)
(***************************************************************************)
\* cur.fetchone() returning None
NoRow == [id |-> 0, email |-> "", name |-> "", password_hash |-> "", prefs |-> ""]

\* error_response = None
NoError == [statusCode |-> 0, error |-> "", details |-> ""]

Response(code, error, details) == [statusCode |-> code, error |-> error, details |-> details]

\* the text of a storage exception, by what it contains
ErrorKinds == {"permission", "schema-missing", "connection", "other"}
ErrorText(kind) ==
    CASE kind = "permission"     -> "permission denied for table users"
      [] kind = "schema-missing" -> "relation users does not exist"
      [] kind = "connection"     -> "connection is closed"
      [] kind = "unique"         -> "duplicate key value violates unique constraint users_email_key"
      [] OTHER                   -> "statement timeout"
\* the same for a statement on user_bookmarks
BookmarkErrorText(kind) ==
    CASE kind = "permission"     -> "permission denied for table user_bookmarks"
      [] kind = "schema-missing" -> "relation user_bookmarks does not exist"
      [] kind = "foreign-key"    -> "violates foreign key constraint"
      [] OTHER                   -> ErrorText(kind)
Contains(text, phrase) ==
    CASE phrase = "permission denied" -> text \in {"permission denied for table users",
                                                   "permission denied for table user_bookmarks"}
      [] phrase = "relation"          -> text \in {"relation users does not exist",
                                                   "relation user_bookmarks does not exist"}
      [] phrase = "does not exist"    -> text \in {"relation users does not exist",
                                                   "relation user_bookmarks does not exist"}
      [] phrase = "user_bookmarks"    -> text \in {"permission denied for table user_bookmarks",
                                                   "relation user_bookmarks does not exist"}
      [] phrase = "foreign key"       -> text = "violates foreign key constraint"
      [] phrase = "connection"        -> text = "connection is closed"
      [] OTHER                        -> FALSE

handle_database_error(error_str, operation) ==
    IF Contains(error_str, "permission denied")
    THEN Response(500, "Database permission error. Please contact administrator.",
                  "The database user lacks necessary permissions for this operation.")
    ELSE IF Contains(error_str, "relation") /\ Contains(error_str, "does not exist")
    THEN Response(500, "Database schema error. Required tables do not exist.",
                  "Please run the database schema updates.")
    ELSE IF Contains(error_str, "connection")
    THEN Response(500, "Database connection failed.",
                  "Unable to connect to the database server.")
    ELSE Response(500, "Database error during " \o operation,
                  "An unexpected database error occurred.")

(***************************************************************************)
(* Storage                                                                  *)
(***************************************************************************)
\* the lookup by id sent to the users table of the other schema
SelectByIdOtherSchema(schema, user_id) ==
    {r \in users[opposite_schema(schema)] : r.id = user_id}
\* SELECT ... FROM schema.users WHERE id = %s
SelectById(schema, user_id) == {r \in users[schema] : r.id = user_id}
\* the lookup by email with the schema fixed to deals_master
SelectByEmailMaster(schema, email) == {r \in users["deals_master"] : r.email = email}
\* SELECT ... FROM schema.users WHERE email = %s
SelectByEmail(schema, email) == {r \in users[schema] : r.email = email}
\* cur.fetchone(): one row of the result, or None
fetchone(rows) == IF rows = {} THEN {NoRow} ELSE rows

\* what a storage call does: completes, or raises an exception of some kind
Outcomes == {"ok"} \cup ErrorKinds

NoFault == [kind |-> "", at |-> ""]
NoPrev == [kind |-> "", user_id |-> 0, statusCode |-> 0, mirrored |-> FALSE]
\* snap[p] once another request has written
NoSnap == [s \in Schemas |-> {NoRow}]
NoLoc == [user_str |-> "", email |-> "", source |-> NoRow, new_user_id |-> 0]
NoCall == [ident |-> "", schema |-> "", resolver |-> ""]
NoRes == [user_id |-> 0, error_response |-> NoError]

\* no bookmark request is being served
NoReq == [method |-> "", path |-> <<>>, userId |-> "", productId |-> "",
          product_data |-> "", action |-> ""]
\* kind: which body the response carries ("list", "check", "added", "removed", "error")
NoReply == [statusCode |-> 0, kind |-> "", bookmarked |-> FALSE, removed |-> FALSE,
            products |-> {}, error |-> ""]

\* empty bookmark tables and no bookmark request
NoBookmarkRequests ==
    /\ bookmarks = [s \in Schemas |-> {}]
    /\ nextBm = [s \in Schemas |-> 1]
    /\ req = [p \in Procs |-> NoReq]
    /\ reply = [p \in Procs |-> NoReply]

Entry(op, schema, eff) == [op |-> op, schema |-> schema, eff |-> eff]

TypeOK ==
    /\ \A s \in Schemas : users[s] \subseteq
          [id : 1..(MaxId + 2), email : Emails \cup DigitEmails, name : Names,
           password_hash : {"pbkdf2", ""}, prefs : Prefs]
    /\ \A p \in Procs : call[p].schema \in Schemas \cup {""}

(***************************************************************************)
(* Bookkeeping shared by the statement steps                                *)
(***************************************************************************)
\* return user_id, error_response
Return(p, user_id, error_response) ==
    /\ pc' = [pc EXCEPT ![p] = "done"]
    /\ res' = [res EXCEPT ![p] = [user_id |-> user_id, error_response |-> error_response]]

Goto(p, label) ==
    /\ pc' = [pc EXCEPT ![p] = label]
    /\ UNCHANGED res

Issue(p, entries) == log' = [log EXCEPT ![p] = @ \o entries]

Inject(p, kind, at) == flt' = [flt EXCEPT ![p] = [kind |-> kind, at |-> at]]

\* a write by request p (0: a request outside Procs) ends the undisturbed run of
\* every other request in progress
Disturb(p) ==
    /\ snap' = [q \in Procs |-> IF q = p \/ pc[q] = "idle" THEN snap[q] ELSE NoSnap]
    /\ prev' = [q \in Procs |-> IF q = p \/ pc[q] = "idle" THEN prev[q] ELSE NoPrev]

\* the except clause that rolls back whatever the flag says
SelectRaisesRollsBack(p, kind, op, schema, operation, rollback) ==
    /\ Return(p, 0, handle_database_error(ErrorText(kind), operation))
    /\ Issue(p, <<Entry(op, schema, "raised"), Entry("rollback", "", "")>>)
    /\ Inject(p, kind, op)
    /\ UNCHANGED <<users, nextId, loc, snap, prev>>

\* a SELECT that raises: the enclosing except clause answers
\* (rollback: whether that clause calls conn.rollback())
SelectRaises(p, kind, op, schema, operation, rollback) ==
    /\ Return(p, 0, handle_database_error(ErrorText(kind), operation))
    /\ Issue(p, <<Entry(op, schema, "raised")>>
                \o (IF rollback THEN <<Entry("rollback", "", "")>> ELSE <<>>))
    /\ Inject(p, kind, op)
    /\ UNCHANGED <<users, nextId, loc, snap, prev>>

(***************************************************************************)
(* A request arrives: resolve_user_id(conn, user_identifier, schema) or     *)
(* resolve_user_id_fast(conn, user_identifier, schema)                      *)
(***************************************************************************)
FirstStatement(resolver, user_str) ==
    IF resolver = "resolve_user_id"
    THEN (IF isdigit(user_str) THEN "r_select_id" ELSE "r_select_email")
    ELSE (IF isdigit(user_str) THEN "f_select_id" ELSE "f_select_email")

Begin(p, user_identifier, schema, resolver) ==
    /\ call' = [call EXCEPT ![p] =
          [ident |-> user_identifier, schema |-> schema, resolver |-> resolver]]
    /\ loc' = [loc EXCEPT ![p] = [NoLoc EXCEPT !.user_str = strip(user_identifier)]]
    /\ pc' = [pc EXCEPT ![p] = FirstStatement(resolver, strip(user_identifier))]
    /\ res' = [res EXCEPT ![p] = NoRes]
    /\ log' = [log EXCEPT ![p] = <<>>]
    /\ flt' = [flt EXCEPT ![p] = NoFault]

Start(p) ==
    /\ pc[p] \in {"idle", "done"}
    /\ \E user_identifier \in Identifiers, schema \in Schemas, resolver \in Resolvers :
          Begin(p, user_identifier, schema, resolver)
    /\ prev' = [prev EXCEPT ![p] = NoPrev]
    /\ snap' = [snap EXCEPT ![p] = users]
    /\ UNCHANGED <<users, nextId, bmvars, batchvars>>

Undisturbed(p) == snap[p] # NoSnap

\* the call added a row to the users table of its schema
Mirrored(p) ==
    \E i \in DOMAIN log[p] : log[p][i].eff = "new"

\* the client repeats the request it has just been answered
Again(p) ==
    /\ pc[p] = "done"
    /\ flt[p] = NoFault
    /\ Undisturbed(p)
    /\ Begin(p, call[p].ident, call[p].schema, call[p].resolver)
    /\ prev' = [prev EXCEPT ![p] = [kind |-> "again", user_id |-> res[p].user_id,
                                    statusCode |-> res[p].error_response.statusCode,
                                    mirrored |-> Mirrored(p)]]
    /\ snap' = [snap EXCEPT ![p] = users]
    /\ UNCHANGED <<users, nextId, bmvars, batchvars>>

\* the client, answered by a call that mirrored email e into the call's schema,
\* resolves e in the schema the profile was copied from
Back(p) ==
    /\ pc[p] = "done"
    /\ flt[p] = NoFault
    /\ Undisturbed(p)
    /\ Mirrored(p)
    /\ \E home \in {r \in users[opposite_schema(call[p].schema)] : r.email = loc[p].source.email},
          resolver \in Resolvers :
          /\ Begin(p, home.email, opposite_schema(call[p].schema), resolver)
          /\ prev' = [prev EXCEPT ![p] = [kind |-> "back", user_id |-> home.id,
                                          statusCode |-> 0, mirrored |-> TRUE]]
    /\ snap' = [snap EXCEPT ![p] = users]
    /\ UNCHANGED <<users, nextId, bmvars, batchvars>>

(***************************************************************************)
(* manage_users.py: resolve_user_id                                         *)
(***************************************************************************)
NotFound(error, details) == Response(404, error, details)

\* the auto-create routine resolve_user_id dispatches to
AutoCreate(schema) ==
    IF schema = "deals_india" THEN "ai_select_master" ELSE "am_select_india"

\* cur.execute(SELECT id, email FROM {schema}.users WHERE id = %s)
r_select_id(p) ==
    /\ pc[p] = "r_select_id"
    /\ LET schema == call[p].schema
           user_id == int(loc[p].user_str)
       IN \E out \in Outcomes :
            IF out # "ok"
            THEN SelectRaises(p, out, "select_id", schema, "user ID resolution", FALSE)
            ELSE /\ \E result \in fetchone(SelectById(schema, user_id)) :
                       IF result # NoRow
                       THEN Return(p, user_id, NoError)
                       ELSE Goto(p, "x_select_other")
                 /\ Issue(p, <<Entry("select_id", schema, "")>>)
                 /\ UNCHANGED <<users, nextId, loc, flt, snap, prev>>
    /\ UNCHANGED <<call, bmvars, batchvars>>

\* cur.execute(SELECT id FROM {schema}.users WHERE email = %s)
r_select_email(p) ==
    /\ pc[p] = "r_select_email"
    /\ LET schema == call[p].schema
           user_str == loc[p].user_str
       IN \E out \in Outcomes :
            IF out # "ok"
            THEN SelectRaises(p, out, "select_email", schema, "user ID resolution", FALSE)
            ELSE /\ \E result \in fetchone(SelectByEmail(schema, user_str)) :
                       IF result # NoRow
                       THEN /\ Return(p, result.id, NoError)
                            /\ UNCHANGED loc
                       ELSE /\ Goto(p, AutoCreate(schema))
                            /\ loc' = [loc EXCEPT ![p].email = user_str]
                 /\ Issue(p, <<Entry("select_email", schema, "")>>)
                 /\ UNCHANGED <<users, nextId, flt, snap, prev>>
    /\ UNCHANGED <<call, bmvars, batchvars>>

(***************************************************************************)
(* manage_users.py: resolve_numeric_id_cross_schema                         *)
(***************************************************************************)
\* cur.execute(SELECT email FROM <opposite>.users WHERE id = %s)
x_select_other(p) ==
    /\ pc[p] = "x_select_other"
    /\ LET target_schema == call[p].schema
           source_schema == IF target_schema = "deals_india"
                            THEN "deals_master" ELSE "deals_india"
           user_id == int(loc[p].user_str)
       IN \E out \in Outcomes :
            IF out # "ok"
            THEN SelectRaises(p, out, "select_id", source_schema,
                              "cross-schema user resolution", FALSE)
            ELSE /\ \E result \in fetchone(SelectById(source_schema, user_id)) :
                       IF result # NoRow
                       THEN /\ Goto(p, "x_select_target_email")
                            /\ loc' = [loc EXCEPT ![p].email = result.email]
                       ELSE /\ Return(p, 0, NotFound("User not found",
                                   "User ID does not exist in any schema"))
                            /\ UNCHANGED loc
                 /\ Issue(p, <<Entry("select_id", source_schema, "")>>)
                 /\ UNCHANGED <<users, nextId, flt, snap, prev>>
    /\ UNCHANGED <<call, bmvars, batchvars>>

\* the lookup that answers with the identifier instead of the id it found
x_select_target_email_keeps_identifier(p) ==
    /\ pc[p] = "x_select_target_email"
    /\ LET target_schema == call[p].schema
           email == loc[p].email
       IN \E out \in Outcomes :
            IF out # "ok"
            THEN SelectRaises(p, out, "select_email", target_schema,
                              "cross-schema user resolution", FALSE)
            ELSE /\ \E target_result \in fetchone(SelectByEmail(target_schema, email)) :
                       IF target_result # NoRow
                       THEN Return(p, int(loc[p].user_str), NoError)
                       ELSE Goto(p, AutoCreate(target_schema))
                 /\ Issue(p, <<Entry("select_email", target_schema, "")>>)
                 /\ UNCHANGED <<users, nextId, loc, flt, snap, prev>>
    /\ UNCHANGED <<call, bmvars, batchvars>>

\* cur.execute(SELECT id FROM {target_schema}.users WHERE email = %s)
x_select_target_email(p) ==
    /\ pc[p] = "x_select_target_email"
    /\ LET target_schema == call[p].schema
           email == loc[p].email
       IN \E out \in Outcomes :
            IF out # "ok"
            THEN SelectRaises(p, out, "select_email", target_schema,
                              "cross-schema user resolution", FALSE)
            ELSE /\ \E target_result \in fetchone(SelectByEmail(target_schema, email)) :
                       IF target_result # NoRow
                       THEN Return(p, target_result.id, NoError)
                       ELSE Goto(p, AutoCreate(target_schema))
                 /\ Issue(p, <<Entry("select_email", target_schema, "")>>)
                 /\ UNCHANGED <<users, nextId, loc, flt, snap, prev>>
    /\ UNCHANGED <<call, bmvars, batchvars>>

(***************************************************************************)
(* Writes on a users table                                                  *)
(***************************************************************************)
\* the mirror that keeps the id its source row has in the other schema
MirrorRowKeepsSourceId(source, id) ==
    [id |-> source.id, email |-> source.email, name |-> source.name,
     password_hash |-> source.password_hash, prefs |-> source.prefs]
\* the insert with the values one column off: the name stored as email
MirrorRowColumnsSlipped(source, id) ==
    [id |-> id, email |-> source.name, name |-> source.email,
     password_hash |-> source.password_hash, prefs |-> source.prefs]
\* the insert that leaves the password hash out
MirrorRowNoPassword(source, id) ==
    [id |-> id, email |-> source.email, name |-> source.name,
     password_hash |-> "", prefs |-> source.prefs]
\* the row INSERT ... VALUES (name, email, password_hash, preferences) adds:
\* source_user[1:], under the next id of the serial column
MirrorRow(source, id) ==
    [id |-> id, email |-> source.email, name |-> source.name,
     password_hash |-> source.password_hash, prefs |-> source.prefs]

\* ON CONFLICT (email) DO UPDATE SET name, preferred_categories, preferred_stores,
\* gender, city, notifications, notification_frequency (auto_create_user_in_master)
MergeMaster(existing, source) ==
    [existing EXCEPT !.name = source.name, !.prefs = source.prefs]

\* ON CONFLICT (email) DO UPDATE SET name (auto_create_user_cross_schema)
MergeCrossSchema(existing, source) ==
    [existing EXCEPT !.name = source.name]

InsertOutcomes == Outcomes \cup {"no-row"}

\* the INSERT sent to the users table of the other schema
InsertedOtherSchema(schema, row) == [users EXCEPT ![opposite_schema(schema)] = @ \cup {row}]
\* the table after INSERT of a new row
Inserted(schema, row) == [users EXCEPT ![schema] = @ \cup {row}]
\* the table after the conflicting row was updated
Replaced(schema, old, new) == [users EXCEPT ![schema] = (@ \ {old}) \cup {new}]

(***************************************************************************)
(* manage_users.py: auto_create_user_in_india                               *)
(***************************************************************************)
\* cur.execute(SELECT id, name, email, ... FROM deals_master.users WHERE email = %s)
ai_select_master(p) ==
    /\ pc[p] = "ai_select_master"
    /\ LET user_identifier == loc[p].email
       IN \E out \in Outcomes :
            IF out # "ok"
            THEN SelectRaises(p, out, "select_profile", "deals_master",
                              "user auto-creation", TRUE)
            ELSE /\ \E master_user \in fetchone(SelectByEmail("deals_master", user_identifier)) :
                       IF master_user # NoRow
                       THEN /\ Goto(p, "ai_recheck")
                            /\ loc' = [loc EXCEPT ![p].source = master_user]
                       ELSE /\ Return(p, 0, NotFound("User not found in master schema",
                                   "No user found with email"))
                            /\ UNCHANGED loc
                 /\ Issue(p, <<Entry("select_profile", "deals_master", "")>>)
                 /\ UNCHANGED <<users, nextId, flt, snap, prev>>
    /\ UNCHANGED <<call, bmvars, batchvars>>

\* the re-check whose failure is caught and taken for "no such row"
ai_recheck_continues(p) ==
    /\ pc[p] = "ai_recheck"
    /\ LET master_user == loc[p].source
       IN \E out \in Outcomes :
            IF out # "ok"
            THEN /\ Goto(p, "ai_insert")
                 /\ Issue(p, <<Entry("select_email", "deals_india", "raised")>>)
                 /\ Inject(p, out, "select_email")
                 /\ UNCHANGED <<users, nextId, loc, snap, prev>>
            ELSE /\ \E existing_india_user \in
                          fetchone(SelectByEmail("deals_india", master_user.email)) :
                       IF existing_india_user # NoRow
                       THEN Return(p, existing_india_user.id, NoError)
                       ELSE Goto(p, "ai_insert")
                 /\ Issue(p, <<Entry("select_email", "deals_india", "")>>)
                 /\ UNCHANGED <<users, nextId, loc, flt, snap, prev>>
    /\ UNCHANGED <<call, bmvars, batchvars>>

\* cur.execute(SELECT id FROM deals_india.users WHERE email = %s), master_user[2]
ai_recheck(p) ==
    /\ pc[p] = "ai_recheck"
    /\ LET master_user == loc[p].source
       IN \E out \in Outcomes :
            IF out # "ok"
            THEN SelectRaises(p, out, "select_email", "deals_india",
                              "user auto-creation", TRUE)
            ELSE /\ \E existing_india_user \in
                          fetchone(SelectByEmail("deals_india", master_user.email)) :
                       IF existing_india_user # NoRow
                       THEN Return(p, existing_india_user.id, NoError)
                       ELSE Goto(p, "ai_insert")
                 /\ Issue(p, <<Entry("select_email", "deals_india", "")>>)
                 /\ UNCHANGED <<users, nextId, loc, flt, snap, prev>>
    /\ UNCHANGED <<call, bmvars, batchvars>>

\* the answer of the except clause around the INSERT
InsertFailedIndia(insert_error) ==
    Response(500, "Failed to insert user in India schema", insert_error)

\* cur.execute(INSERT INTO deals_india.users ... RETURNING id); conn.commit()
ai_insert(p) ==
    /\ pc[p] = "ai_insert"
    /\ LET master_user == loc[p].source
           new_user_id == nextId["deals_india"]
       IN \E out \in InsertOutcomes :
            IF out \in ErrorKinds
            THEN /\ Return(p, 0, InsertFailedIndia(ErrorText(out)))
                 /\ Issue(p, <<Entry("insert", "deals_india", "raised"),
                               Entry("rollback", "", "")>>)
                 /\ Inject(p, out, "insert")
                 /\ UNCHANGED <<users, nextId, loc, snap, prev>>
            ELSE IF SelectByEmail("deals_india", master_user.email) # {}
            THEN \* the unique index on email rejects the row
                 /\ out = "ok"
                 /\ Return(p, 0, InsertFailedIndia(ErrorText("unique")))
                 /\ Issue(p, <<Entry("insert", "deals_india", "raised"),
                               Entry("rollback", "", "")>>)
                 /\ UNCHANGED <<users, nextId, loc, flt, snap, prev>>
            ELSE IF out = "no-row"
            THEN /\ Return(p, 0, Response(500, "Failed to create user in India schema",
                                   "User insertion succeeded but no ID returned"))
                 /\ Issue(p, <<Entry("insert", "deals_india", "none"),
                               Entry("rollback", "", "")>>)
                 /\ Inject(p, out, "insert")
                 /\ UNCHANGED <<users, nextId, loc, snap, prev>>
            ELSE /\ users' = Inserted("deals_india", MirrorRow(master_user, new_user_id))
                 /\ nextId' = [nextId EXCEPT !["deals_india"] = @ + 1]
                 /\ Goto(p, "ai_verify")
                 /\ loc' = [loc EXCEPT ![p].new_user_id = new_user_id]
                 /\ Issue(p, <<Entry("insert", "deals_india", "new"),
                               Entry("commit", "", "")>>)
                 /\ Disturb(p)
                 /\ UNCHANGED flt
    /\ UNCHANGED <<call, bmvars, batchvars>>

\* cur.execute(SELECT id, email FROM deals_india.users WHERE id = %s), new_user_id
ai_verify(p) ==
    /\ pc[p] = "ai_verify"
    /\ LET new_user_id == loc[p].new_user_id
       IN \E out \in Outcomes :
            IF out # "ok"
            THEN \* raised inside the try block of the INSERT
                 /\ Return(p, 0, InsertFailedIndia(ErrorText(out)))
                 /\ Issue(p, <<Entry("select_id", "deals_india", "raised"),
                               Entry("rollback", "", "")>>)
                 /\ Inject(p, out, "select_id")
                 /\ UNCHANGED <<users, nextId, loc, snap, prev>>
            ELSE /\ \E verification \in fetchone(SelectById("deals_india", new_user_id)) :
                       IF verification # NoRow
                       THEN Return(p, new_user_id, NoError)
                       ELSE Return(p, 0, Response(500, "User creation verification failed",
                                   "User was created but cannot be found immediately after"))
                 /\ Issue(p, <<Entry("select_id", "deals_india", "")>>)
                 /\ UNCHANGED <<users, nextId, loc, flt, snap, prev>>
    /\ UNCHANGED <<call, bmvars, batchvars>>

(***************************************************************************)
(* manage_users.py: auto_create_user_in_master                              *)
(***************************************************************************)
\* the lookup whose WHERE clause accepts every row
SelectIndiaUserAny(user_identifier) == users["deals_india"]
\* SELECT ... FROM deals_india.users WHERE email = %s OR id::text = %s
SelectIndiaUser(user_identifier) ==
    {r \in users["deals_india"] : r.email = user_identifier \/ Str(r.id) = user_identifier}

am_select_india(p) ==
    /\ pc[p] = "am_select_india"
    /\ LET user_identifier == loc[p].email
       IN \E out \in Outcomes :
            IF out # "ok"
            THEN SelectRaises(p, out, "select_profile", "deals_india",
                              "user auto-creation", FALSE)
            ELSE /\ \E india_user \in fetchone(SelectIndiaUser(user_identifier)) :
                       IF india_user # NoRow
                       THEN /\ Goto(p, "am_upsert")
                            /\ loc' = [loc EXCEPT ![p].source = india_user]
                       ELSE /\ Return(p, 0, NotFound("User not found in any schema",
                                   "No user found with identifier"))
                            /\ UNCHANGED loc
                 /\ Issue(p, <<Entry("select_profile", "deals_india", "")>>)
                 /\ UNCHANGED <<users, nextId, flt, snap, prev>>
    /\ UNCHANGED <<call, bmvars, batchvars>>

\* what auto_create_user_in_master returns when the upsert returned no row
NoRowMaster ==
    NotFound("User not found in any schema", "No user found with identifier")

\* cur.execute(INSERT INTO deals_master.users ... ON CONFLICT (email) DO UPDATE
\* ... RETURNING id); conn.commit()
am_upsert(p) ==
    /\ pc[p] = "am_upsert"
    /\ LET india_user == loc[p].source
           conflict == SelectByEmail("deals_master", india_user.email)
       IN \E out \in InsertOutcomes :
            IF out \in ErrorKinds
            THEN /\ Return(p, 0, handle_database_error(ErrorText(out), "user auto-creation"))
                 /\ Issue(p, <<Entry("upsert", "deals_master", "raised")>>)
                 /\ Inject(p, out, "insert")
                 /\ UNCHANGED <<users, nextId, loc, snap, prev>>
            ELSE IF out = "no-row"
            THEN /\ Return(p, 0, NoRowMaster)
                 /\ Issue(p, <<Entry("upsert", "deals_master", "none"),
                               Entry("commit", "", "")>>)
                 /\ Inject(p, out, "insert")
                 /\ UNCHANGED <<users, nextId, loc, snap, prev>>
            ELSE IF conflict # {}
            THEN \E existing \in conflict :
                 /\ users' = Replaced("deals_master", existing,
                                      MergeMaster(existing, india_user))
                 /\ Return(p, existing.id, NoError)
                 /\ Issue(p, <<Entry("upsert", "deals_master", "merged"),
                               Entry("commit", "", "")>>)
                 /\ Disturb(p)
                 /\ UNCHANGED <<nextId, loc, flt>>
            ELSE /\ users' = Inserted("deals_master",
                                      MirrorRow(india_user, nextId["deals_master"]))
                 /\ nextId' = [nextId EXCEPT !["deals_master"] = @ + 1]
                 /\ Return(p, nextId["deals_master"], NoError)
                 /\ Issue(p, <<Entry("upsert", "deals_master", "new"),
                               Entry("commit", "", "")>>)
                 /\ Disturb(p)
                 /\ UNCHANGED <<loc, flt>>
    /\ UNCHANGED <<call, bmvars, batchvars>>

(***************************************************************************)
(* bookmark_management.py: resolve_user_id_fast                             *)
(***************************************************************************)
\* cur.execute(SELECT id, email FROM {schema}.users WHERE id = %s)
f_select_id(p) ==
    /\ pc[p] = "f_select_id"
    /\ LET schema == call[p].schema
           user_id == int(loc[p].user_str)
       IN \E out \in Outcomes :
            IF out # "ok"
            THEN SelectRaises(p, out, "select_id", schema, "user ID resolution", FALSE)
            ELSE /\ \E user_in_target \in fetchone(SelectById(schema, user_id)) :
                       IF user_in_target # NoRow
                       THEN Return(p, user_in_target.id, NoError)
                       ELSE Goto(p, "f_select_other")
                 /\ Issue(p, <<Entry("select_id", schema, "")>>)
                 /\ UNCHANGED <<users, nextId, loc, flt, snap, prev>>
    /\ UNCHANGED <<call, bmvars, batchvars>>

\* cur.execute(SELECT email FROM {opposite_schema}.users WHERE id = %s)
f_select_other(p) ==
    /\ pc[p] = "f_select_other"
    /\ LET schema == call[p].schema
           user_id == int(loc[p].user_str)
       IN \E out \in Outcomes :
            IF out # "ok"
            THEN SelectRaises(p, out, "select_id", opposite_schema(schema),
                              "user ID resolution", FALSE)
            ELSE /\ \E email_result \in fetchone(SelectById(opposite_schema(schema), user_id)) :
                       IF email_result # NoRow
                       THEN /\ Goto(p, "f_select_target_email")
                            /\ loc' = [loc EXCEPT ![p].email = email_result.email]
                       ELSE /\ Return(p, 0, NotFound("User not found in any schema", ""))
                            /\ UNCHANGED loc
                 /\ Issue(p, <<Entry("select_id", opposite_schema(schema), "")>>)
                 /\ UNCHANGED <<users, nextId, flt, snap, prev>>
    /\ UNCHANGED <<call, bmvars, batchvars>>

\* cur.execute(SELECT id FROM {schema}.users WHERE email = %s), the email found
f_select_target_email(p) ==
    /\ pc[p] = "f_select_target_email"
    /\ LET schema == call[p].schema
           email == loc[p].email
       IN \E out \in Outcomes :
            IF out # "ok"
            THEN SelectRaises(p, out, "select_email", schema, "user ID resolution", FALSE)
            ELSE /\ \E target_user \in fetchone(SelectByEmail(schema, email)) :
                       IF target_user # NoRow
                       THEN Return(p, target_user.id, NoError)
                       ELSE Goto(p, "ac_select_source")
                 /\ Issue(p, <<Entry("select_email", schema, "")>>)
                 /\ UNCHANGED <<users, nextId, loc, flt, snap, prev>>
    /\ UNCHANGED <<call, bmvars, batchvars>>

\* cur.execute(SELECT id FROM {schema}.users WHERE email = %s LIMIT 1), user_str
f_select_email(p) ==
    /\ pc[p] = "f_select_email"
    /\ LET schema == call[p].schema
           user_str == loc[p].user_str
       IN \E out \in Outcomes :
            IF out # "ok"
            THEN SelectRaises(p, out, "select_email", schema, "user ID resolution", FALSE)
            ELSE /\ \E result \in fetchone(SelectByEmail(schema, user_str)) :
                       IF result # NoRow
                       THEN Return(p, result.id, NoError)
                       ELSE Return(p, 0, NotFound("User not found by email", ""))
                 /\ Issue(p, <<Entry("select_email", schema, "")>>)
                 /\ UNCHANGED <<users, nextId, loc, flt, snap, prev>>
    /\ UNCHANGED <<call, bmvars, batchvars>>

(***************************************************************************)
(* bookmark_management.py: auto_create_user_cross_schema                    *)
(***************************************************************************)
\* cur.execute(SELECT name, email, ... FROM {source_schema}.users WHERE email = %s)
ac_select_source(p) ==
    /\ pc[p] = "ac_select_source"
    /\ LET source_schema == opposite_schema(call[p].schema)
           email == loc[p].email
       IN \E out \in Outcomes :
            IF out # "ok"
            THEN SelectRaises(p, out, "select_profile", source_schema,
                              "user auto-creation", TRUE)
            ELSE /\ \E source_user \in fetchone(SelectByEmail(source_schema, email)) :
                       IF source_user # NoRow
                       THEN /\ Goto(p, "ac_upsert")
                            /\ loc' = [loc EXCEPT ![p].source = source_user]
                       ELSE /\ Return(p, 0, NotFound("Source user not found", ""))
                            /\ UNCHANGED loc
                 /\ Issue(p, <<Entry("select_profile", source_schema, "")>>)
                 /\ UNCHANGED <<users, nextId, flt, snap, prev>>
    /\ UNCHANGED <<call, bmvars, batchvars>>

\* what auto_create_user_cross_schema returns when the upsert returned no row
NoRowCrossSchema == Response(500, "Failed to create user", "")

\* cur.execute(INSERT INTO {target_schema}.users ... ON CONFLICT (email) DO UPDATE
\* SET name ... RETURNING id); conn.commit()
ac_upsert(p) ==
    /\ pc[p] = "ac_upsert"
    /\ LET target_schema == call[p].schema
           source_user == loc[p].source
           conflict == SelectByEmail(target_schema, source_user.email)
       IN \E out \in InsertOutcomes :
            IF out \in ErrorKinds
            THEN /\ Return(p, 0, handle_database_error(ErrorText(out), "user auto-creation"))
                 /\ Issue(p, <<Entry("upsert", target_schema, "raised"),
                               Entry("rollback", "", "")>>)
                 /\ Inject(p, out, "insert")
                 /\ UNCHANGED <<users, nextId, loc, snap, prev>>
            ELSE IF out = "no-row"
            THEN /\ Return(p, 0, NoRowCrossSchema)
                 /\ Issue(p, <<Entry("upsert", target_schema, "none")>>)
                 /\ Inject(p, out, "insert")
                 /\ UNCHANGED <<users, nextId, loc, snap, prev>>
            ELSE IF conflict # {}
            THEN \E existing \in conflict :
                 /\ users' = Replaced(target_schema, existing,
                                      MergeCrossSchema(existing, source_user))
                 /\ Return(p, existing.id, NoError)
                 /\ Issue(p, <<Entry("upsert", target_schema, "merged"),
                               Entry("commit", "", "")>>)
                 /\ Disturb(p)
                 /\ UNCHANGED <<nextId, loc, flt>>
            ELSE /\ users' = Inserted(target_schema,
                                      MirrorRow(source_user, nextId[target_schema]))
                 /\ nextId' = [nextId EXCEPT ![target_schema] = @ + 1]
                 /\ Return(p, nextId[target_schema], NoError)
                 /\ Issue(p, <<Entry("upsert", target_schema, "new"),
                               Entry("commit", "", "")>>)
                 /\ Disturb(p)
                 /\ UNCHANGED <<loc, flt>>
    /\ UNCHANGED <<call, bmvars, batchvars>>

(***************************************************************************)
(* Other requests writing the users tables (manage_users.py lambda_handler)  *)
(***************************************************************************)
\* signup: the email is not in {schema}.users; INSERT (name, email, password_hash,
\* preferred_categories); conn.commit()
SignupRow(id, email, name, categories) ==
    [id |-> id, email |-> email, name |-> name,
     password_hash |-> "pbkdf2", prefs |-> categories]

Signup(schema, email, name, categories) ==
    /\ nextId[schema] <= MaxId
    /\ SelectByEmail(schema, email) = {}
    /\ users' = Inserted(schema, SignupRow(nextId[schema], email, name, categories))
    /\ nextId' = [nextId EXCEPT ![schema] = @ + 1]
    /\ Disturb(0)
    /\ UNCHANGED <<pc, call, loc, res, log, flt, bmvars, batchvars>>

(***************************************************************************)
(* update_promo_products_daily.py: run_update                               *)
(* One run is one transaction on the tables product and                     *)
(* product_promo_history of a schema. A statement completes, or raises a    *)
(* database error (pg8000.Error sent by the server: PostgreSQL then refuses *)
(* every later statement of the transaction and ends it with a rollback,    *)
(* also when asked to commit), or raises before it reaches the server (the  *)
(* except Exception clauses: the transaction goes on).                      *)
(***************************************************************************)
MaxRuns == 2
\* WHERE created_at >= NOW() - INTERVAL '7 days'
HistoryDays == 7
\* LIMIT 1 of the deal of the day, LIMIT 3 of the deals-now picks
DealLimit == 1
PickLimit == 3

PromoProducts == {"a", "b", "c", "d", "e"}
\* is_active AND deal_price > 36 AND discount_percent > 27
DealCandidates == {"a", "b"}
\* is_active AND deal_price > 25 AND discount_percent > 25
PickCandidates == {"a", "b", "c", "d", "e"}
PromoLabels == {"deal_of_the_day", "deals_now_pick"}
\* days between two runs of the daily job
Elapsed == {1, HistoryDays, HistoryDays + 1}

StatementOutcomes == {"ok", "database", "unexpected"}
\* what a statement can do in a transaction that a database error has aborted or not
Exec(aborted) == IF aborted THEN {"database"} ELSE StatementOutcomes

\* the tables: label[x] is promo_label of product x; recency lists the products by
\* updated_at, latest first, products with equal updated_at in one set; history is
\* product_promo_history, has_history whether that table exists
Catalogue(has_history) ==
    [label |-> [x \in PromoProducts |-> ""],
     recency |-> <<{"a"}, {"b"}, {"c"}, {"d"}, {"e"}>>,
     history |-> {}, has_history |-> has_history]

NoRun == [pc |-> "idle", n |-> 0, tx |-> Catalogue(FALSE), aborted |-> FALSE,
          previously_picked |-> {}, cleared_count |-> 0, cleared_deals_now_pick |-> 0,
          new_deal |-> "None", picks |-> {}, result |-> "none",
          before |-> Catalogue(FALSE)]

\* no run_update has run
NoPromoRun ==
    /\ promodb = Catalogue(FALSE)
    /\ run = NoRun
    /\ day = 0
    /\ labelled = {}

\* SET updated_at = now on the rows of set
Touched(recency, set) ==
    LET rest == [i \in 1..Len(recency) |-> recency[i] \ set]
        NonEmpty(g) == g # {}
    IN IF set = {} THEN recency ELSE <<set>> \o SelectSeq(rest, NonEmpty)

Rank(recency, x) == CHOOSE i \in 1..Len(recency) : x \in recency[i]

\* ORDER BY updated_at DESC LIMIT k: the results the query can have
Latest(recency, candidates, k) ==
    {S \in SUBSET candidates :
        /\ Cardinality(S) = (IF Cardinality(candidates) < k
                             THEN Cardinality(candidates) ELSE k)
        /\ \A x \in S, y \in candidates \ S : Rank(recency, x) <= Rank(recency, y)}

\* UPDATE ... SET promo_label = new, updated_at = now WHERE product_id IN set
Relabelled(db, set, new) ==
    [db EXCEPT !.label = [x \in PromoProducts |-> IF x \in set THEN new ELSE @[x]],
               !.recency = Touched(@, set)]

WithLabel(db, promo_label) == {x \in PromoProducts : db.label[x] = promo_label}

\* record_promo_selection: CREATE TABLE IF NOT EXISTS and INSERT
Recorded(db, set, promo_label) ==
    [db EXCEPT !.has_history = (@ \/ set # {}),
               !.history = @ \cup {[product_id |-> x, promo_label |-> promo_label,
                                    created_at |-> day] : x \in set}]

\* the rollback that keeps what the transaction wrote
RolledBackKeepsWrites(db, tx) == tx
\* conn.rollback(): the tables are what was committed
RolledBack(db, tx) == db

\* a step raised: except Exception: conn.rollback(); raise; success False
run_fails ==
    /\ run' = [run EXCEPT !.pc = "idle", !.result = "failure", !.tx = promodb,
                          !.aborted = FALSE]
    /\ promodb' = RolledBack(promodb, run.tx)
    /\ UNCHANGED <<day, labelled>>

\* run_update up to conn.cursor(), some days after the run before: the
\* transaction begins
run_begin ==
    /\ UNCHANGED <<uservars, mpvars>>
    /\ run.pc = "idle"
    /\ run.n < MaxRuns
    /\ run' = [NoRun EXCEPT !.pc = "verify", !.n = run.n + 1, !.tx = promodb,
                            !.before = promodb]
    /\ \E d \in (IF run.n = 0 THEN {0} ELSE Elapsed) : day' = day + d
    /\ UNCHANGED <<promodb, labelled>>

\* Step 1: verify_schema_and_tables
p_verify ==
    /\ UNCHANGED <<uservars, mpvars>>
    /\ run.pc = "verify"
    /\ \E out \in Exec(run.aborted) :
         IF out # "ok" THEN run_fails
         ELSE /\ run' = [run EXCEPT !.pc = "history"]
              /\ UNCHANGED <<promodb, day, labelled>>

\* Step 2: get_previously_picked_products; an exception is answered with []
p_history ==
    /\ UNCHANGED <<uservars, mpvars>>
    /\ run.pc = "history"
    /\ \E out \in Exec(run.aborted) :
         run' = [run EXCEPT
            !.pc = "available",
            !.aborted = (@ \/ out = "database"),
            !.previously_picked =
                IF out = "ok" /\ run.tx.has_history
                THEN {h.product_id : h \in {g \in run.tx.history :
                                               g.created_at >= day - HistoryDays}}
                ELSE {}]
    /\ UNCHANGED <<promodb, day, labelled>>

\* Step 3: check_available_products; an exception is answered with None
p_available ==
    /\ UNCHANGED <<uservars, mpvars>>
    /\ run.pc = "available"
    /\ \E out \in Exec(run.aborted) :
         run' = [run EXCEPT !.pc = "clear_deal", !.aborted = (@ \/ out = "database")]
    /\ UNCHANGED <<promodb, day, labelled>>

\* Step 4: clear_previous_deal_of_the_day
p_clear_deal ==
    /\ UNCHANGED <<uservars, mpvars>>
    /\ run.pc = "clear_deal"
    /\ \E out \in Exec(run.aborted) :
         IF out # "ok" THEN run_fails
         ELSE /\ run' = [run EXCEPT
                    !.pc = "clear_picks",
                    !.cleared_count = Cardinality(WithLabel(run.tx, "deal_of_the_day")),
                    !.tx = Relabelled(@, WithLabel(run.tx, "deal_of_the_day"), "")]
              /\ UNCHANGED <<promodb, day, labelled>>

\* Step 5: clear_previous_deals_now_pick
p_clear_picks ==
    /\ UNCHANGED <<uservars, mpvars>>
    /\ run.pc = "clear_picks"
    /\ \E out \in Exec(run.aborted) :
         IF out # "ok" THEN run_fails
         ELSE /\ run' = [run EXCEPT
                    !.pc = "deal",
                    !.cleared_deals_now_pick =
                        Cardinality(WithLabel(run.tx, "deals_now_pick")),
                    !.tx = Relabelled(@, WithLabel(run.tx, "deals_now_pick"), "")]
              /\ UNCHANGED <<promodb, day, labelled>>

\* Step 6: find_and_update_deal_of_the_day (out: its SELECT and UPDATE; rec: the
\* record_promo_selection it calls, whose exceptions it swallows)
p_deal ==
    /\ UNCHANGED <<uservars, mpvars>>
    /\ run.pc = "deal"
    /\ \E out \in Exec(run.aborted) :
         IF out # "ok" THEN run_fails
         ELSE LET candidates == {x \in DealCandidates :
                                    /\ run.tx.label[x] \notin PromoLabels
                                    /\ x \notin run.previously_picked}
              IN /\ IF candidates = {}
                    THEN run' = [run EXCEPT !.pc = "picks", !.new_deal = "None"]
                    ELSE \E S \in Latest(run.tx.recency, candidates, DealLimit),
                            rec \in StatementOutcomes :
                           \E x \in S :
                             run' = [run EXCEPT
                                !.pc = "picks",
                                !.new_deal = x,
                                !.aborted = (rec = "database"),
                                !.tx = IF rec = "ok"
                                       THEN Recorded(Relabelled(@, {x}, "deal_of_the_day"),
                                                     {x}, "deal_of_the_day")
                                       ELSE Relabelled(@, {x}, "deal_of_the_day")]
                 /\ UNCHANGED <<promodb, day, labelled>>

\* Step 7: find_and_update_deals_now_pick (out: its SELECT and UPDATEs; unexpected:
\* the picks whose record_promo_selection raised before reaching the server;
\* database: the last pick, when the server refused its record_promo_selection)
p_picks ==
    /\ UNCHANGED <<uservars, mpvars>>
    /\ run.pc = "picks"
    /\ \E out \in Exec(run.aborted) :
         IF out # "ok" THEN run_fails
         ELSE LET candidates == {x \in PickCandidates :
                                    /\ run.tx.label[x] \notin PromoLabels
                                    /\ x \notin run.previously_picked \cup {run.new_deal}}
              IN /\ \E S \in Latest(run.tx.recency, candidates, PickLimit) :
                    \E unexpected \in SUBSET S :
                    \E database \in {D \in SUBSET (S \ unexpected) : Cardinality(D) <= 1} :
                       run' = [run EXCEPT
                          !.pc = "commit",
                          !.picks = S,
                          !.aborted = (database # {}),
                          !.tx = Recorded(Relabelled(@, S, "deals_now_pick"),
                                          S \ (unexpected \cup database), "deals_now_pick")]
                 /\ UNCHANGED <<promodb, day, labelled>>

\* Step 8: conn.commit(); success True
p_commit ==
    /\ UNCHANGED <<uservars, mpvars>>
    /\ run.pc = "commit"
    /\ \E out \in StatementOutcomes :
         IF out # "ok" THEN run_fails
         ELSE /\ run' = [run EXCEPT !.pc = "idle", !.result = "success",
                                    !.tx = IF run.aborted THEN promodb ELSE @,
                                    !.aborted = FALSE]
              /\ promodb' = IF run.aborted THEN RolledBack(promodb, run.tx) ELSE run.tx
              /\ labelled' = IF run.aborted THEN labelled
                             ELSE labelled \cup
                                    {[product_id |-> x, run |-> run.n, day |-> day] :
                                        x \in (run.picks \cup {run.new_deal}) \ {"None"}}
              /\ UNCHANGED day

(***************************************************************************)
(* update_product_data.py: move_to_production                               *)
(* One call is one transaction on the tables product and product_staging of *)
(* a schema. production[k] is the number of the call whose upsert wrote the *)
(* row of product_key k last, 0 when the table has no such row.             *)
(***************************************************************************)
MaxCalls == 2
MaxBatch == 2

ProductKeys == {"k1", "k2"}
\* an entry of products_data: numeric is whether float() and int() accept its
\* price and discount fields
ProductsData ==
    {d \in UNION {[1..n -> [product_key : ProductKeys, numeric : BOOLEAN]] : n \in 0..MaxBatch} :
        \A i, j \in DOMAIN d : d[i].product_key = d[j].product_key => i = j}

Tables(staged, produced) == [staging |-> staged, production |-> produced]

NoMove == [pc |-> "idle", n |-> 0, products_data |-> <<>>, todo |-> <<>>,
           tx |-> Tables({}, [k \in ProductKeys |-> 0]), aborted |-> FALSE,
           success_count |-> 0, successful_product_keys |-> {},
           failed_products |-> {}, success |-> "none",
           before |-> Tables({}, [k \in ProductKeys |-> 0])]

\* no move_to_production call has run
NoMoveCall ==
    /\ staging = {}
    /\ production = [k \in ProductKeys |-> 0]
    /\ move = NoMove

\* no batch job has run
NoBatch == NoPromoRun /\ NoMoveCall

\* conn.commit(): what the tables become; the server ends an aborted transaction
\* with a rollback
Committed(aborted, tx) == IF aborted THEN Tables(staging, production) ELSE tx

\* move_to_production up to conn.cursor(); no products_data: success False
move_begin ==
    /\ UNCHANGED <<uservars, pmvars>>
    /\ move.pc = "idle"
    /\ move.n < MaxCalls
    /\ \E products_data \in ProductsData :
         move' = [NoMove EXCEPT
            !.n = move.n + 1,
            !.products_data = products_data,
            !.todo = products_data,
            !.pc = IF products_data = <<>> THEN "idle" ELSE "product",
            !.success = IF products_data = <<>> THEN "False" ELSE "none",
            !.tx = Tables(staging, production),
            !.before = Tables(staging, production)]
    /\ UNCHANGED <<staging, production>>

\* one turn of the loop over products_data: the conversions, the upsert and the
\* INSERT into product_history, whose exception is swallowed
m_product ==
    /\ UNCHANGED <<uservars, pmvars>>
    /\ move.pc = "product"
    /\ LET product == Head(move.todo)
           key == product.product_key
           next == IF Len(move.todo) = 1 THEN "delete" ELSE "product"
       IN \E upsert \in Exec(move.aborted), history \in StatementOutcomes :
            move' =
              IF ~product.numeric \/ upsert # "ok"
              THEN [move EXCEPT
                      !.pc = next, !.todo = Tail(@),
                      !.aborted = (@ \/ (product.numeric /\ upsert = "database")),
                      !.failed_products = @ \cup {key}]
              ELSE [move EXCEPT
                      !.pc = next, !.todo = Tail(@),
                      !.tx = [@ EXCEPT !.production[key] = move.n],
                      !.success_count = @ + 1,
                      !.successful_product_keys = @ \cup {key},
                      !.aborted = (history = "database")]
    /\ UNCHANGED <<staging, production>>

\* DELETE FROM product_staging WHERE product_key IN successful_product_keys; an
\* exception is swallowed
m_delete ==
    /\ UNCHANGED <<uservars, pmvars>>
    /\ move.pc = "delete"
    /\ IF move.successful_product_keys = {}
       THEN move' = [move EXCEPT !.pc = "commit"]
       ELSE \E out \in Exec(move.aborted) :
              move' =
                IF out = "ok"
                THEN [move EXCEPT
                        !.pc = "commit",
                        !.tx = [@ EXCEPT !.staging = @ \ move.successful_product_keys]]
                ELSE [move EXCEPT
                        !.pc = "commit",
                        !.aborted = (@ \/ out = "database"),
                        !.failed_products = @ \cup {"Multiple products"}]
    /\ UNCHANGED <<staging, production>>

\* conn.commit() and the result; an exception: conn.rollback(), success False
m_commit ==
    /\ UNCHANGED <<uservars, pmvars>>
    /\ move.pc = "commit"
    /\ \E out \in StatementOutcomes :
         IF out = "ok"
         THEN /\ staging' = Committed(move.aborted, move.tx).staging
              /\ production' = Committed(move.aborted, move.tx).production
              /\ move' = [move EXCEPT
                    !.pc = "idle", !.aborted = FALSE,
                    !.tx = Committed(move.aborted, move.tx),
                    !.success = IF move.success_count > 0 THEN "True" ELSE "False"]
         ELSE /\ move' = [move EXCEPT !.pc = "idle", !.aborted = FALSE,
                                      !.tx = Tables(staging, production),
                                      !.success = "False"]
              /\ UNCHANGED <<staging, production>>

(***************************************************************************)
(* Specifications                                                           *)
(***************************************************************************)
NoUserRequest ==
    /\ pc = [p \in Procs |-> "idle"]
    /\ call = [p \in Procs |-> NoCall]
    /\ loc = [p \in Procs |-> NoLoc]
    /\ res = [p \in Procs |-> NoRes]
    /\ log = [p \in Procs |-> <<>>]
    /\ flt = [p \in Procs |-> NoFault]
    /\ prev = [p \in Procs |-> NoPrev]
    /\ snap = [p \in Procs |-> users]
    /\ NoBookmarkRequests

Idle ==
    /\ NoUserRequest
    /\ NoBatch

\* empty tables, no request in progress
Init ==
    /\ users = [s \in Schemas |-> {}]
    /\ nextId = [s \in Schemas |-> 1]
    /\ Idle

Statement(p) ==
    \/ r_select_id(p) \/ r_select_email(p)
    \/ x_select_other(p) \/ x_select_target_email(p)
    \/ ai_select_master(p) \/ ai_recheck(p) \/ ai_insert(p) \/ ai_verify(p)
    \/ am_select_india(p) \/ am_upsert(p)
    \/ f_select_id(p) \/ f_select_other(p) \/ f_select_target_email(p)
    \/ f_select_email(p)
    \/ ac_select_source(p) \/ ac_upsert(p)

\* no request is at its return statement
Quiet == \A p \in Procs : pc[p] # "done"

Environment ==
    /\ Quiet
    /\ \E schema \in Schemas, email \in Emails, body \in SignupBodies :
          Signup(schema, email, body.name, body.preferred_categories)

\* one resolving request at a time, other requests writing in between its statements
Next ==
    \/ Start(1) \/ Again(1) \/ Back(1) \/ Statement(1)
    \/ Environment

Spec == Init /\ [][Next]_vars

(***************************************************************************)
(* Two resolving requests at once                                           *)
(***************************************************************************)
\* the tables that signups of distinct emails with one body leave
SeedTables(body) ==
    {{}}
    \cup {{SignupRow(1, e, body.name, body.preferred_categories)} : e \in Emails}
    \cup {{SignupRow(1, e[1], body.name, body.preferred_categories),
           SignupRow(2, e[2], body.name, body.preferred_categories)} :
             e \in {f \in Emails \X Emails : f[1] # f[2]}}

MasterBody == [name |-> "n1", preferred_categories |-> "p1"]
IndiaBody == [name |-> "n2", preferred_categories |-> "p2"]

\* both requests have entered their resolver, with arguments c[1] and c[2]
Entered(c) ==
    /\ call = [p \in Procs |-> c[p]]
    /\ loc = [p \in Procs |-> [NoLoc EXCEPT !.user_str = strip(c[p].ident)]]
    /\ pc = [p \in Procs |-> FirstStatement(c[p].resolver, strip(c[p].ident))]
    /\ res = [p \in Procs |-> NoRes]
    /\ log = [p \in Procs |-> <<>>]
    /\ flt = [p \in Procs |-> NoFault]
    /\ prev = [p \in Procs |-> NoPrev]
    /\ snap = [p \in Procs |-> users]
    /\ NoBookmarkRequests
    /\ NoBatch

Calls == [ident : Identifiers, schema : Schemas, resolver : Resolvers]

\* two requests with the same arguments
InitRace ==
    /\ \E m \in SeedTables(MasterBody), i \in SeedTables(IndiaBody) :
          /\ users = [s \in Schemas |-> IF s = "deals_master" THEN m ELSE i]
          /\ nextId = [s \in Schemas |->
                          IF s = "deals_master" THEN Cardinality(m) + 1
                                                ELSE Cardinality(i) + 1]
    /\ \E c \in Calls : Entered([p \in Procs |-> c])

NextRace == \E p \in Procs : Statement(p)

SpecRace == InitRace /\ [][NextRace]_vars

(***************************************************************************)
(* The two mirror directions side by side: request 1 resolves into          *)
(* deals_india, request 2 resolves the swapped user into deals_master, from *)
(* tables that are each other's image under the swap                        *)
(***************************************************************************)
SwapEmail(e) ==
    IF e = "a@x.com" THEN "b@x.com" ELSE IF e = "b@x.com" THEN "a@x.com" ELSE e
SwapTable(rows) == {[r EXCEPT !.email = SwapEmail(r.email)] : r \in rows}

InitSym ==
    /\ \E body \in SignupBodies : \E m \in SeedTables(body) :
          /\ users = [s \in Schemas |-> IF s = "deals_master" THEN m ELSE SwapTable(m)]
          /\ nextId = [s \in Schemas |-> Cardinality(m) + 1]
    /\ \E user_identifier \in Identifiers :
          Entered([p \in Procs |->
              IF p = 1
              THEN [ident |-> user_identifier, schema |-> "deals_india",
                    resolver |-> "resolve_user_id"]
              ELSE [ident |-> SwapEmail(user_identifier), schema |-> "deals_master",
                    resolver |-> "resolve_user_id"]])

NextSym ==
    \E p \in Procs :
        \/ r_select_id(p) \/ r_select_email(p) \/ x_select_other(p)
        \/ ai_select_master(p) \/ ai_recheck(p) \/ ai_insert(p) \/ ai_verify(p)
        \/ am_select_india(p) \/ am_upsert(p)

SpecSym == InitSym /\ [][NextSym]_vars

(***************************************************************************)
(* manage_users.py: handle_user_preferences_operations, PUT                 *)
(* /user-preferences/{userId}. The handler resolves the identifier with     *)
(* resolve_user_id and, when that returned a user id, updates the           *)
(* preference columns of the row with that id.                              *)
(***************************************************************************)
\* the UPDATE with the WHERE clause on the email of the resolved user
UpdatedByEmail(schema, user_id, preferences) ==
    [s \in Schemas |->
        {IF \E t \in users[schema] : t.id = user_id /\ t.email = r.email
         THEN [r EXCEPT !.prefs = preferences] ELSE r : r \in users[s]}]
\* UPDATE {schema}.users SET preferred_categories = ..., ... WHERE id = %s
Updated(schema, user_id, preferences) ==
    [users EXCEPT ![schema] =
        {IF r.id = user_id THEN [r EXCEPT !.prefs = preferences] ELSE r : r \in @}]

\* the handler has answered: 200, 404 "User not found", or 500
PutAnswered == {"put_200", "put_404", "put_500"}

\* cur.execute(UPDATE ... RETURNING ...); result = cur.fetchone(); conn.commit()
put_update(p) ==
    /\ pc[p] = "done"
    /\ call[p].resolver = "resolve_user_id"
    /\ res[p].error_response = NoError
    /\ LET schema == call[p].schema
           user_id == res[p].user_id
       IN \E preferences \in Prefs, out \in Outcomes :
            IF out # "ok"
            THEN \* except Exception: handle_database_error
                 /\ pc' = [pc EXCEPT ![p] = "put_500"]
                 /\ Issue(p, <<Entry("update", schema, "raised")>>)
                 /\ Inject(p, out, "update")
                 /\ UNCHANGED <<users, snap, prev>>
            ELSE /\ \E result \in fetchone(SelectById(schema, user_id)) :
                       pc' = [pc EXCEPT ![p] = IF result # NoRow THEN "put_200"
                                                                 ELSE "put_404"]
                 /\ users' = Updated(schema, user_id, preferences)
                 /\ Issue(p, <<Entry("update", schema, ""), Entry("commit", "", "")>>)
                 /\ Disturb(p)
                 /\ UNCHANGED flt
    /\ UNCHANGED <<nextId, call, loc, res, bmvars, batchvars>>

\* request 1 is a PUT that has entered resolve_user_id
InitPrefs ==
    /\ \E m \in SeedTables(MasterBody), i \in SeedTables(IndiaBody) :
          /\ users = [s \in Schemas |-> IF s = "deals_master" THEN m ELSE i]
          /\ nextId = [s \in Schemas |->
                          IF s = "deals_master" THEN Cardinality(m) + 1
                                                ELSE Cardinality(i) + 1]
    /\ \E user_identifier \in Identifiers, schema \in Schemas :
          /\ call = [p \in Procs |->
                IF p = 1 THEN [ident |-> user_identifier, schema |-> schema,
                               resolver |-> "resolve_user_id"]
                         ELSE NoCall]
          /\ loc = [p \in Procs |->
                IF p = 1 THEN [NoLoc EXCEPT !.user_str = strip(user_identifier)]
                         ELSE NoLoc]
          /\ pc = [p \in Procs |->
                IF p = 1 THEN FirstStatement("resolve_user_id", strip(user_identifier))
                         ELSE "idle"]
    /\ res = [p \in Procs |-> NoRes]
    /\ log = [p \in Procs |-> <<>>]
    /\ flt = [p \in Procs |-> NoFault]
    /\ prev = [p \in Procs |-> NoPrev]
    /\ snap = [p \in Procs |-> users]
    /\ NoBookmarkRequests
    /\ NoBatch

\* a later request resolves an identifier after the PUT was answered
LaterResolve ==
    /\ pc[1] \in PutAnswered
    /\ pc[2] = "idle"
    /\ Start(2)

NextPrefs ==
    \/ \E p \in Procs : Statement(p)
    \/ put_update(1)
    \/ LaterResolve

SpecPrefs == InitPrefs /\ [][NextPrefs]_vars

(***************************************************************************)
(* One resolving request over tables in which a user of deals_india signed  *)
(* up with an email that consists of digits                                 *)
(***************************************************************************)
\* the tables that signups with one body in deals_india leave when one email is digits
SeedTablesDigits(body) ==
    LET emails == DigitEmails \cup {"b@x.com"}
    IN {{}}
       \cup {{SignupRow(1, e, body.name, body.preferred_categories)} : e \in emails}
       \cup {{SignupRow(1, e[1], body.name, body.preferred_categories),
              SignupRow(2, e[2], body.name, body.preferred_categories)} :
                e \in {f \in emails \X emails : f[1] # f[2]}}

InitClassify ==
    /\ \E m \in SeedTables(MasterBody), i \in SeedTablesDigits(IndiaBody) :
          /\ users = [s \in Schemas |-> IF s = "deals_master" THEN m ELSE i]
          /\ nextId = [s \in Schemas |->
                          IF s = "deals_master" THEN Cardinality(m) + 1
                                                ELSE Cardinality(i) + 1]
    /\ \E c \in Calls :
          /\ call = [p \in Procs |-> IF p = 1 THEN c ELSE NoCall]
          /\ loc = [p \in Procs |->
                IF p = 1 THEN [NoLoc EXCEPT !.user_str = strip(c.ident)] ELSE NoLoc]
          /\ pc = [p \in Procs |->
                IF p = 1 THEN FirstStatement(c.resolver, strip(c.ident)) ELSE "idle"]
    /\ res = [p \in Procs |-> NoRes]
    /\ log = [p \in Procs |-> <<>>]
    /\ flt = [p \in Procs |-> NoFault]
    /\ prev = [p \in Procs |-> NoPrev]
    /\ snap = [p \in Procs |-> users]
    /\ NoBookmarkRequests
    /\ NoBatch

NextClassify == Statement(1)

SpecClassify == InitClassify /\ [][NextClassify]_vars

(***************************************************************************)
(* bookmark_management.py: lambda_handler and handle_bookmark_operations    *)
(* A request is routed, its user is resolved by resolve_user_id_fast, and   *)
(* one statement on {schema}.user_bookmarks answers it.                     *)
(***************************************************************************)
MaxBm == 1
Products == {"7"}
ProductData == {"d1", "d2"}
BookmarkUsers == {"1", "a@x.com"}
LegacyActions == {"get_bookmarks", "add_bookmark", "remove_bookmark", "check_bookmark"}

\* '/' + segment in path: the path, split at '/', has the segment
HasSegment(path, segment) == \E i \in 1..Len(path) : path[i] = segment
\* '/' + segment + '/' in path: the segment is followed by another one
HasSegmentSlash(path, segment) == \E i \in 1..(Len(path) - 1) : path[i] = segment

Request(method, path, userId, productId, product_data, action) ==
    [method |-> method, path |-> path, userId |-> userId, productId |-> productId,
     product_data |-> product_data, action |-> action]

\* the events a client sends: the REST routes, and a body with a legacy action
\* (userId, productId: the path parameter or else the body field; "": neither)
BookmarkRequests ==
    {Request("GET", <<"api", "bookmarks", u>>, u, "", "", "") : u \in BookmarkUsers}
    \cup {Request("GET", <<"api", "bookmarks", u, "check", pr>>, u, pr, "", "") :
            u \in BookmarkUsers, pr \in Products}
    \cup {Request("POST", <<"api", "bookmarks">>, u, pr, d, "") :
            u \in BookmarkUsers, pr \in Products, d \in ProductData}
    \cup {Request("POST", <<"api", "bookmarks">>, "", "7", "d1", ""),
          Request("POST", <<"api", "bookmarks">>, "1", "", "d1", "")}
    \cup {Request("DELETE", <<"api", "bookmarks", u, pr>>, u, pr, "", "") :
            u \in BookmarkUsers, pr \in Products}
    \cup {Request("DELETE", <<"api", "bookmarks", "1">>, "1", "", "", "")}
    \cup {Request("POST", <<"api">>, "1", pr, "d1", a) :
            pr \in Products \cup {""}, a \in LegacyActions}
    \cup {Request("POST", <<"api">>, "", "7", "d1", "check_bookmark"),
          Request("POST", <<"api">>, "1", "7", "d1", "")}

ErrorReply(code, error) ==
    [NoReply EXCEPT !.statusCode = code, !.kind = "error", !.error = error]

\* lambda_handler: what it answers without calling handle_bookmark_operations
\* (NoReply: it calls)
Refused(r) ==
    IF HasSegment(r.path, "bookmarks") THEN NoReply
    ELSE IF r.action \in LegacyActions
    THEN (IF r.userId = ""
          THEN ErrorReply(400, "user_id is required for bookmark operations")
          ELSE IF r.action = "remove_bookmark" /\ r.productId = ""
          THEN ErrorReply(400, "product_id is required for remove_bookmark operation")
          ELSE IF r.action = "check_bookmark" /\ r.productId = ""
          THEN ErrorReply(400, "product_id is required for check_bookmark operation")
          ELSE NoReply)
    ELSE ErrorReply(400, "Invalid request")

\* lambda_handler: the event it hands to handle_bookmark_operations
Rewritten(r) ==
    IF HasSegment(r.path, "bookmarks") THEN r
    ELSE CASE r.action = "get_bookmarks" ->
                [r EXCEPT !.method = "GET", !.path = <<"api", "bookmarks", r.userId>>]
           [] r.action = "add_bookmark" ->
                [r EXCEPT !.method = "POST", !.path = <<"api", "bookmarks">>]
           [] r.action = "remove_bookmark" ->
                [r EXCEPT !.method = "DELETE",
                          !.path = <<"api", "bookmarks", r.userId, r.productId>>]
           [] r.action = "check_bookmark" ->
                [r EXCEPT !.method = "GET",
                          !.path = <<"api", "bookmarks", r.userId, "check", r.productId>>]
           [] OTHER -> r

\* lambda_handler up to the call of resolve_user_id_fast
b_route(p) ==
    /\ pc[p] \in {"idle", "replied"}
    /\ \E r \in BookmarkRequests, schema \in Schemas :
         IF Refused(r) # NoReply \/ Rewritten(r).userId = ""
         THEN /\ reply' = [reply EXCEPT ![p] =
                    IF Refused(r) # NoReply THEN Refused(r)
                    ELSE ErrorReply(400, "User ID is required")]
              /\ req' = [req EXCEPT ![p] = r]
              /\ pc' = [pc EXCEPT ![p] = "replied"]
              /\ UNCHANGED <<call, loc, res, log, flt, prev, snap>>
         ELSE /\ Begin(p, Rewritten(r).userId, schema, "resolve_user_id_fast")
              /\ req' = [req EXCEPT ![p] = Rewritten(r)]
              /\ reply' = [reply EXCEPT ![p] = NoReply]
              /\ prev' = [prev EXCEPT ![p] = NoPrev]
              /\ snap' = [snap EXCEPT ![p] = users]
    /\ UNCHANGED <<users, nextId, bookmarks, nextBm, batchvars>>

\* the except clause of handle_bookmark_operations
bookmark_error(error_str) ==
    IF Contains(error_str, "relation") /\ Contains(error_str, "user_bookmarks")
    THEN ErrorReply(500, "Database table missing")
    ELSE IF Contains(error_str, "foreign key")
    THEN ErrorReply(500, "User reference error")
    ELSE IF Contains(error_str, "permission denied")
    THEN ErrorReply(500, "Database permission error")
    ELSE ErrorReply(500, handle_database_error(error_str, "bookmark operation").error)

\* SELECT ... FROM {schema}.user_bookmarks WHERE user_id = %s
SelectBookmarks(schema, user_id) == {b \in bookmarks[schema] : b.user_id = user_id}
\* ... WHERE user_id = %s AND product_id = %s
SelectBookmark(schema, user_id, product_id) ==
    {b \in bookmarks[schema] : b.user_id = user_id /\ b.product_id = product_id}

\* the INSERT without its ON CONFLICT clause
UpsertedPlainInsert(schema, user_id, product_id, product_data) ==
    bookmarks[schema] \cup
      {[id |-> nextBm[schema], user_id |-> user_id, product_id |-> product_id,
        product_data |-> product_data]}
\* INSERT ... ON CONFLICT (user_id, product_id) DO UPDATE SET product_data = EXCLUDED...
Upserted(schema, user_id, product_id, product_data) ==
    IF SelectBookmark(schema, user_id, product_id) = {}
    THEN bookmarks[schema] \cup
           {[id |-> nextBm[schema], user_id |-> user_id, product_id |-> product_id,
             product_data |-> product_data]}
    ELSE {IF b \in SelectBookmark(schema, user_id, product_id)
          THEN [b EXCEPT !.product_data = product_data] ELSE b : b \in bookmarks[schema]}

\* the handler that goes on whatever resolve_user_id_fast returned
ResolutionFailedIgnored(p) == FALSE
\* if error_response: conn.close(); return error_response
ResolutionFailed(p) == res[p].error_response # NoError

\* handle_bookmark_operations after resolve_user_id_fast returned: the first branch,
\* in the order of the source, whose condition the event meets
b_operate(p) ==
    /\ pc[p] = "done"
    /\ req[p] # NoReq
    /\ pc' = [pc EXCEPT ![p] = "replied"]
    /\ LET schema == call[p].schema
           user_id == res[p].user_id
           method == req[p].method
           path == req[p].path
           product_id == req[p].productId
           Answer(r) == reply' = [reply EXCEPT ![p] = r]
           Raises(out, op) ==
               /\ Answer(bookmark_error(BookmarkErrorText(out)))
               /\ Issue(p, <<Entry(op, schema, "raised")>>)
               /\ UNCHANGED <<bookmarks, nextBm>>
       IN IF ResolutionFailed(p)
          THEN /\ Answer(ErrorReply(res[p].error_response.statusCode,
                                    res[p].error_response.error))
               /\ UNCHANGED <<bookmarks, nextBm, log>>
          ELSE IF method = "GET" /\ HasSegmentSlash(path, "bookmarks")
          THEN \E out \in Outcomes :
                 IF out # "ok" THEN Raises(out, "select_bookmarks")
                 ELSE /\ Answer([NoReply EXCEPT !.statusCode = 200, !.kind = "list",
                          !.products = {b.product_id : b \in SelectBookmarks(schema, user_id)}])
                      /\ Issue(p, <<Entry("select_bookmarks", schema, "")>>)
                      /\ UNCHANGED <<bookmarks, nextBm>>
          ELSE IF method = "POST" /\ HasSegment(path, "bookmarks")
          THEN IF product_id = ""
               THEN /\ Answer(ErrorReply(400, "Product ID is required"))
                    /\ UNCHANGED <<bookmarks, nextBm, log>>
               ELSE \E out \in Outcomes \cup {"foreign-key"} :
                      IF out # "ok" THEN Raises(out, "upsert_bookmark")
                      ELSE /\ SelectBookmark(schema, user_id, product_id) = {}
                                => nextBm[schema] <= MaxBm
                           /\ bookmarks' = [bookmarks EXCEPT ![schema] =
                                Upserted(schema, user_id, product_id, req[p].product_data)]
                           /\ nextBm' = [nextBm EXCEPT ![schema] =
                                IF SelectBookmark(schema, user_id, product_id) = {}
                                THEN @ + 1 ELSE @]
                           /\ Answer([NoReply EXCEPT !.statusCode = 200, !.kind = "added"])
                           /\ Issue(p, <<Entry("upsert_bookmark", schema, ""),
                                         Entry("commit", "", "")>>)
          ELSE IF method = "DELETE" /\ product_id # ""
          THEN \E out \in Outcomes :
                 IF out # "ok" THEN Raises(out, "delete_bookmark")
                 ELSE /\ bookmarks' = [bookmarks EXCEPT ![schema] =
                            @ \ SelectBookmark(schema, user_id, product_id)]
                      /\ Answer([NoReply EXCEPT !.statusCode = 200, !.kind = "removed",
                            !.removed = SelectBookmark(schema, user_id, product_id) # {}])
                      /\ Issue(p, <<Entry("delete_bookmark", schema, ""),
                                    Entry("commit", "", "")>>)
                      /\ UNCHANGED nextBm
          ELSE IF method = "GET" /\ HasSegmentSlash(path, "bookmarks")
                  /\ HasSegment(path, "check")
          THEN IF product_id = ""
               THEN /\ Answer(ErrorReply(400, "Product ID is required for bookmark check"))
                    /\ UNCHANGED <<bookmarks, nextBm, log>>
               ELSE \E out \in Outcomes :
                      IF out # "ok" THEN Raises(out, "select_bookmark")
                      ELSE /\ Answer([NoReply EXCEPT !.statusCode = 200, !.kind = "check",
                                 !.bookmarked =
                                    SelectBookmark(schema, user_id, product_id) # {}])
                           /\ Issue(p, <<Entry("select_bookmark", schema, "")>>)
                           /\ UNCHANGED <<bookmarks, nextBm>>
          ELSE /\ Answer(ErrorReply(404, "Bookmark endpoint not found"))
               /\ UNCHANGED <<bookmarks, nextBm, log>>
    /\ UNCHANGED <<users, nextId, call, loc, res, flt, prev, snap, req, batchvars>>

\* the statements of resolve_user_id_fast and of auto_create_user_cross_schema
FastStatement(p) ==
    \/ f_select_id(p) \/ f_select_other(p) \/ f_select_target_email(p)
    \/ f_select_email(p)
    \/ ac_select_source(p) \/ ac_upsert(p)

\* the tables that at most one signup leaves
BookmarkSeeds(body) == {t \in SeedTables(body) : Cardinality(t) <= 1}

\* signups left the users tables, no bookmark yet, no request in progress
InitBookmarks ==
    /\ \E m \in BookmarkSeeds(MasterBody), i \in BookmarkSeeds(IndiaBody) :
          /\ users = [s \in Schemas |-> IF s = "deals_master" THEN m ELSE i]
          /\ nextId = [s \in Schemas |->
                          IF s = "deals_master" THEN Cardinality(m) + 1
                                                ELSE Cardinality(i) + 1]
    /\ Idle

\* one bookmark request after another
NextBookmarks == b_route(1) \/ FastStatement(1) \/ b_operate(1)

SpecBookmarks == InitBookmarks /\ [][NextBookmarks]_vars

(***************************************************************************)
(* Two add or remove requests at once                                       *)
(***************************************************************************)
\* the events that add or remove a bookmark, as handle_bookmark_operations gets them
AddRemoveRequests ==
    {Request("POST", <<"api", "bookmarks">>, u, pr, d, "") :
        u \in BookmarkUsers, pr \in Products, d \in ProductData}
    \cup {Request("DELETE", <<"api", "bookmarks", u, pr>>, u, pr, "", "") :
            u \in BookmarkUsers, pr \in Products}

\* both requests have been routed and have entered resolve_user_id_fast
InitBookmarkRace ==
    /\ \E m \in BookmarkSeeds(MasterBody), i \in BookmarkSeeds(IndiaBody) :
          /\ users = [s \in Schemas |-> IF s = "deals_master" THEN m ELSE i]
          /\ nextId = [s \in Schemas |->
                          IF s = "deals_master" THEN Cardinality(m) + 1
                                                ELSE Cardinality(i) + 1]
    /\ \E schema \in Schemas, r \in [Procs -> AddRemoveRequests] :
          /\ req = r
          /\ call = [p \in Procs |-> [ident |-> r[p].userId, schema |-> schema,
                                       resolver |-> "resolve_user_id_fast"]]
          /\ loc = [p \in Procs |-> [NoLoc EXCEPT !.user_str = strip(r[p].userId)]]
          /\ pc = [p \in Procs |->
                FirstStatement("resolve_user_id_fast", strip(r[p].userId))]
    /\ res = [p \in Procs |-> NoRes]
    /\ log = [p \in Procs |-> <<>>]
    /\ flt = [p \in Procs |-> NoFault]
    /\ prev = [p \in Procs |-> NoPrev]
    /\ snap = [p \in Procs |-> users]
    /\ bookmarks = [s \in Schemas |-> {}]
    /\ nextBm = [s \in Schemas |-> 1]
    /\ reply = [p \in Procs |-> NoReply]
    /\ NoBatch

NextBookmarkRace == \E p \in Procs : FastStatement(p) \/ b_operate(p)

SpecBookmarkRace == InitBookmarkRace /\ [][NextBookmarkRace]_vars

(***************************************************************************)
(* manage_users.py: lambda_handler, signup and social login                 *)
(* Two requests at once, each an existence check followed by an INSERT;     *)
(* the users table has a unique constraint on email.                        *)
(***************************************************************************)
AuthKinds == {"signup", "social_login"}

\* the row a social login inserts: password_hash ''
SocialRow(id, email, name, categories) ==
    [id |-> id, email |-> email, name |-> name, password_hash |-> "", prefs |-> categories]

\* the INSERT meets a row with this email: duplicate key value violates unique constraint
EmailTaken(schema, email) == \E r \in users[schema] : r.email = email

\* except Exception as e: 500 Internal server error
auth_raises(p, kind, op) ==
    /\ reply' = [reply EXCEPT ![p] = ErrorReply(500, "Internal server error")]
    /\ pc' = [pc EXCEPT ![p] = "answered"]
    /\ Issue(p, <<Entry(op, call[p].schema, "raised")>>)
    /\ Inject(p, kind, op)
    /\ UNCHANGED <<users, nextId>>

auth_answers(p, code, entries) ==
    /\ reply' = [reply EXCEPT ![p] = [NoReply EXCEPT !.statusCode = code, !.kind = "user"]]
    /\ pc' = [pc EXCEPT ![p] = "answered"]
    /\ Issue(p, entries)
    /\ UNCHANGED flt

\* SELECT 1 FROM {schema}.users WHERE email = %s
su_check(p) ==
    /\ pc[p] = "su_check"
    /\ LET schema == call[p].schema
           email == call[p].ident
       IN \E out \in Outcomes :
            IF out # "ok" THEN auth_raises(p, out, "select_email")
            ELSE \E existing \in fetchone(SelectByEmail(schema, email)) :
                   /\ IF existing # NoRow
                      THEN /\ reply' = [reply EXCEPT ![p] =
                                  ErrorReply(409, "Email already exists")]
                           /\ pc' = [pc EXCEPT ![p] = "answered"]
                      ELSE /\ pc' = [pc EXCEPT ![p] = "su_insert"]
                           /\ UNCHANGED reply
                   /\ Issue(p, <<Entry("select_email", schema, "")>>)
                   /\ UNCHANGED <<users, nextId, flt>>
    /\ UNCHANGED <<call, loc, res, prev, snap, bookmarks, nextBm, req, batchvars>>

\* INSERT INTO {schema}.users ... RETURNING ...; conn.commit(); 201
su_insert(p) ==
    /\ pc[p] = "su_insert"
    /\ LET schema == call[p].schema
           email == call[p].ident
       IN \E out \in InsertOutcomes, body \in SignupBodies :
            IF out \in ErrorKinds THEN auth_raises(p, out, "insert")
            ELSE IF EmailTaken(schema, email) THEN auth_raises(p, "unique", "insert")
            ELSE IF out = "no-row"
            THEN /\ reply' = [reply EXCEPT ![p] =
                        [NoReply EXCEPT !.statusCode = 201, !.kind = "user"]]
                 /\ pc' = [pc EXCEPT ![p] = "answered"]
                 /\ Issue(p, <<Entry("insert", schema, "none"), Entry("commit", "", "")>>)
                 /\ Inject(p, out, "insert")
                 /\ UNCHANGED <<users, nextId>>
            ELSE /\ users' = Inserted(schema, SignupRow(nextId[schema], email, body.name,
                                                        body.preferred_categories))
                 /\ nextId' = [nextId EXCEPT ![schema] = @ + 1]
                 /\ auth_answers(p, 201, <<Entry("insert", schema, "new"),
                                           Entry("commit", "", "")>>)
    /\ UNCHANGED <<call, loc, res, prev, snap, bookmarks, nextBm, req, batchvars>>

\* SELECT id, name, email, ... FROM {schema}.users WHERE email = %s
sl_select(p) ==
    /\ pc[p] = "sl_select"
    /\ LET schema == call[p].schema
           email == call[p].ident
       IN \E out \in Outcomes :
            IF out # "ok" THEN auth_raises(p, out, "select_email")
            ELSE \E user_row \in fetchone(SelectByEmail(schema, email)) :
                   /\ IF user_row # NoRow
                      THEN /\ reply' = [reply EXCEPT ![p] =
                                  [NoReply EXCEPT !.statusCode = 200, !.kind = "user"]]
                           /\ pc' = [pc EXCEPT ![p] = "answered"]
                      ELSE /\ pc' = [pc EXCEPT ![p] = "sl_insert"]
                           /\ UNCHANGED reply
                   /\ Issue(p, <<Entry("select_email", schema, "")>>)
                   /\ UNCHANGED <<users, nextId, flt>>
    /\ UNCHANGED <<call, loc, res, prev, snap, bookmarks, nextBm, req, batchvars>>

\* INSERT INTO {schema}.users (name, email, '', categories) RETURNING ...; conn.commit(); 200
sl_insert(p) ==
    /\ pc[p] = "sl_insert"
    /\ LET schema == call[p].schema
           email == call[p].ident
       IN \E out \in InsertOutcomes, body \in SignupBodies :
            IF out \in ErrorKinds THEN auth_raises(p, out, "insert")
            ELSE IF EmailTaken(schema, email) THEN auth_raises(p, "unique", "insert")
            ELSE IF out = "no-row"
            THEN /\ reply' = [reply EXCEPT ![p] =
                        [NoReply EXCEPT !.statusCode = 200, !.kind = "user"]]
                 /\ pc' = [pc EXCEPT ![p] = "answered"]
                 /\ Issue(p, <<Entry("insert", schema, "none"), Entry("commit", "", "")>>)
                 /\ Inject(p, out, "insert")
                 /\ UNCHANGED <<users, nextId>>
            ELSE /\ users' = Inserted(schema, SocialRow(nextId[schema], email, body.name,
                                                        body.preferred_categories))
                 /\ nextId' = [nextId EXCEPT ![schema] = @ + 1]
                 /\ auth_answers(p, 200, <<Entry("insert", schema, "new"),
                                           Entry("commit", "", "")>>)
    /\ UNCHANGED <<call, loc, res, prev, snap, bookmarks, nextBm, req, batchvars>>

\* both requests have connected: call[p].resolver is the branch of lambda_handler taken
InitSignup ==
    /\ \E m \in SeedTables(MasterBody), i \in SeedTables(IndiaBody) :
          /\ users = [s \in Schemas |-> IF s = "deals_master" THEN m ELSE i]
          /\ nextId = [s \in Schemas |->
                          IF s = "deals_master" THEN Cardinality(m) + 1
                                                ELSE Cardinality(i) + 1]
    /\ \E c \in [Procs -> [ident : Emails, schema : Schemas, resolver : AuthKinds]] :
          /\ call = c
          /\ pc = [p \in Procs |->
                IF c[p].resolver = "signup" THEN "su_check" ELSE "sl_select"]
    /\ loc = [p \in Procs |-> NoLoc]
    /\ res = [p \in Procs |-> NoRes]
    /\ log = [p \in Procs |-> <<>>]
    /\ flt = [p \in Procs |-> NoFault]
    /\ prev = [p \in Procs |-> NoPrev]
    /\ snap = [p \in Procs |-> users]
    /\ NoBookmarkRequests
    /\ NoBatch

NextSignup == \E p \in Procs : su_check(p) \/ su_insert(p) \/ sl_select(p) \/ sl_insert(p)

SpecSignup == InitSignup /\ [][NextSignup]_vars

\* the promo job alone: five products never promoted, the history table there or not
InitPromo ==
    /\ users = [s \in Schemas |-> {}]
    /\ nextId = [s \in Schemas |-> 1]
    /\ NoUserRequest
    /\ NoMoveCall
    /\ \E has_history \in BOOLEAN : promodb = Catalogue(has_history)
    /\ run = NoRun
    /\ day = 0
    /\ labelled = {}

NextPromo ==
    \/ run_begin \/ p_verify \/ p_history \/ p_available \/ p_clear_deal
    \/ p_clear_picks \/ p_deal \/ p_picks \/ p_commit

SpecPromo == InitPromo /\ [][NextPromo]_vars

\* the move to production alone: both products wait in product_staging, the
\* product table is empty
InitMove ==
    /\ users = [s \in Schemas |-> {}]
    /\ nextId = [s \in Schemas |-> 1]
    /\ NoUserRequest
    /\ NoPromoRun
    /\ staging = ProductKeys
    /\ production = [k \in ProductKeys |-> 0]
    /\ move = NoMove

NextMove == move_begin \/ m_product \/ m_delete \/ m_commit

SpecMove == InitMove /\ [][NextMove]_vars

(***************************************************************************)
(* Vocabulary of the properties                                             *)
(***************************************************************************)
Done(p) == pc[p] = "done"
Unfaulted(p) == flt[p] = NoFault
Target(p) == call[p].schema
Other(p) == opposite_schema(call[p].schema)
Numeric(p) == isdigit(loc[p].user_str)
Succeeded(p) == res[p].error_response = NoError /\ res[p].user_id # 0
StatusCode(p) == res[p].error_response.statusCode
\* a call that ran to its return with no storage failure and no other request writing
Sequential(p) == Done(p) /\ Unfaulted(p) /\ Undisturbed(p)
WithId(table, id) == {r \in table : r.id = id}
WithEmail(table, email) == {r \in table : r.email = email}
\* the call changed a users table
Wrote(p) == \E i \in DOMAIN log[p] : log[p][i].eff \in {"new", "merged"}
\* the call issued an INSERT or upsert
Inserting(p) == \E i \in DOMAIN log[p] : log[p][i].op \in {"insert", "upsert"}

(***************************************************************************)
(* C1: two resolve calls of the same identifier and schema, one after the   *)
(* other with no other write in between, return the same user id (or the    *)
(* same failure), the second adds no row, and the target holds at most one  *)
(* row per email; for resolve_user_id and for resolve_user_id_fast.         *)
(***************************************************************************)
C1_SequentialIdempotence ==
    \A p \in Procs :
        (Sequential(p) /\ prev[p].kind = "again") =>
            /\ res[p].user_id = prev[p].user_id
            /\ StatusCode(p) = prev[p].statusCode
            /\ Cardinality(users[Target(p)]) = Cardinality(snap[p][Target(p)])
            /\ \A e \in Emails : Cardinality(WithEmail(users[Target(p)], e)) <= 1

\* the second call returns the id of the row the first call mirrored
C1_Witness ==
    \E p \in Procs :
        /\ Sequential(p) /\ prev[p].kind = "again" /\ prev[p].mirrored
        /\ Succeeded(p) /\ res[p].user_id = prev[p].user_id
        /\ call[p].resolver = "resolve_user_id_fast"

(***************************************************************************)
(* C2: two resolve calls of the same identifier and target schema that run  *)
(* concurrently, for a user present only in the other schema, both succeed, *)
(* both return the same id, and the target ends with exactly one row with   *)
(* that user's email; in both directions (checked under SpecRace).          *)
(***************************************************************************)
C2_ConcurrentConvergence ==
    ((\A p \in Procs : Done(p) /\ Unfaulted(p)) /\ (\E p \in Procs : Inserting(p))) =>
        /\ \A p \in Procs : Succeeded(p)
        /\ \A p, q \in Procs : res[p].user_id = res[q].user_id
        /\ \A p \in Procs :
              Cardinality(WithId(users[Target(p)], res[p].user_id)) = 1
        /\ \A p \in Procs, e \in Emails :
              Cardinality(WithEmail(users[Target(p)], e)) <= 1

(***************************************************************************)
(* C3: when the target schema holds a row whose id is the numeric           *)
(* identifier, resolve returns that id after the one lookup in the target:  *)
(* it reads nothing from the other schema and writes nothing, also when the *)
(* other schema holds a different email under the same id.                  *)
(***************************************************************************)
C3_LocalIdWins ==
    \A p \in Procs :
        (Sequential(p) /\ Numeric(p)
            /\ WithId(snap[p][Target(p)], int(loc[p].user_str)) # {}) =>
            /\ res[p] = [user_id |-> int(loc[p].user_str), error_response |-> NoError]
            /\ log[p] = <<Entry("select_id", Target(p), "")>>
            /\ users = snap[p]

\* a local match while the other schema has another person under that id
C3_Witness ==
    \E p \in Procs :
        /\ Sequential(p) /\ Numeric(p)
        /\ \E t \in WithId(snap[p][Target(p)], int(loc[p].user_str)) :
           \E o \in WithId(snap[p][Other(p)], int(loc[p].user_str)) :
              t.email # o.email
        /\ res[p].user_id = int(loc[p].user_str)

(***************************************************************************)
(* C4: when the identifier matches no user of either schema (no row with    *)
(* the numeric id, or no row with the email), resolve answers 404 with no   *)
(* user id and both users tables are what they were before the call.        *)
(***************************************************************************)
Unknown(p) ==
    \A s \in Schemas :
        IF Numeric(p)
        THEN WithId(snap[p][s], int(loc[p].user_str)) = {}
        ELSE WithEmail(snap[p][s], loc[p].user_str) = {}

C4_NoOrphanCreation ==
    \A p \in Procs :
        (Sequential(p) /\ Unknown(p)) =>
            /\ StatusCode(p) = 404
            /\ res[p].user_id = 0
            /\ users = snap[p]

\* an unknown email, looked for in the other schema too, while users exist
C4_Witness ==
    \E p \in Procs :
        /\ Sequential(p) /\ Unknown(p) /\ ~Numeric(p)
        /\ StatusCode(p) = 404
        /\ Len(log[p]) = 2
        /\ \A s \in Schemas : users[s] # {}

(***************************************************************************)
(* C5: when the numeric identifier is absent from the target, the other     *)
(* schema has it with email e, and e is absent from the target, resolve     *)
(* adds exactly one row to the target, with email e and the name, password  *)
(* hash and preferences of the other schema's row, returns the id of the    *)
(* new row, and leaves the other schema's table unchanged.                  *)
(***************************************************************************)
Foreign(p) ==
    /\ Numeric(p)
    /\ WithId(snap[p][Target(p)], int(loc[p].user_str)) = {}
    /\ \E s \in WithId(snap[p][Other(p)], int(loc[p].user_str)) :
          WithEmail(snap[p][Target(p)], s.email) = {}

C6_EmailPathMirrors ==
    \A p \in Procs :
        (Sequential(p) /\ ~Numeric(p)
            /\ WithEmail(snap[p][Target(p)], loc[p].user_str) = {}
            /\ WithEmail(snap[p][Other(p)], loc[p].user_str) # {}) =>
            /\ Succeeded(p)
            /\ \E r \in WithEmail(users[Target(p)], loc[p].user_str) :
                  r.id = res[p].user_id

(***************************************************************************)
(* C7: the two directions are symmetric. From tables that are each other's  *)
(* image, the resolve into deals_india and the resolve of the image         *)
(* identifier into deals_master, meeting the same storage behaviour (no     *)
(* exception; possibly an insert that returns no id), end with the same     *)
(* status, the same id and tables that are again each other's image         *)
(* (checked under SpecSym).                                                 *)
(***************************************************************************)
C7_DirectionsSymmetric ==
    ((\A p \in Procs : Done(p)) /\ flt[1] = flt[2] /\ flt[1].kind \in {"", "no-row"}) =>
        /\ StatusCode(1) = StatusCode(2)
        /\ res[1].user_id = res[2].user_id
        /\ users["deals_india"] = SwapTable(users["deals_master"])

(***************************************************************************)
(* C8: after a resolve call has mirrored the user with email e from schema  *)
(* A into schema B, resolving e in A returns the id e has in A, adds no     *)
(* row and leaves every row of A and B as it was.                           *)
(***************************************************************************)
C8_RoundTrip ==
    \A p \in Procs :
        (Sequential(p) /\ prev[p].kind = "back") =>
            /\ res[p] = [user_id |-> prev[p].user_id, error_response |-> NoError]
            /\ users = snap[p]
            /\ ~Wrote(p)

\* the way back taken in a schema where the ids of the two copies differ
C8_Witness ==
    \E p \in Procs :
        /\ Sequential(p) /\ prev[p].kind = "back" /\ Succeeded(p)
        /\ \E r \in WithEmail(users[Other(p)], loc[p].user_str) : r.id # res[p].user_id

(***************************************************************************)
(* C9: when a storage call of a resolve fails with a permission error, the  *)
(* call returns no user id and the error response of the permission class,  *)
(* whichever statement failed, the mirror insert included, and issues no    *)
(* further statement.                                                       *)
(***************************************************************************)
C9_PermissionClassified ==
    \A p \in Procs :
        (Done(p) /\ flt[p].kind = "permission") =>
            /\ res[p].user_id = 0
            /\ res[p].error_response =
                   handle_database_error(ErrorText("permission"), "user ID resolution")
            /\ \A i \in DOMAIN log[p] :
                  log[p][i].eff = "raised" =>
                      \A j \in (i + 1)..Len(log[p]) : log[p][j].op = "rollback"

(***************************************************************************)
(* C10: an insert that completes without returning an id makes the resolve  *)
(* fail with status 500 and no user id, never with 404, in both directions  *)
(* of resolve_user_id and in resolve_user_id_fast.                          *)
(***************************************************************************)
C10_NoRowIsCreationFailure ==
    \A p \in Procs :
        (Done(p) /\ flt[p].kind = "no-row") =>
            /\ StatusCode(p) = 500
            /\ res[p].user_id = 0

(***************************************************************************)
(* C11: a resolve call issues at most one INSERT or upsert, only after the  *)
(* profile read of mirror-creation and only on the users table of its       *)
(* target schema; a call that succeeds without entering mirror-creation     *)
(* writes nothing; and no step ever removes a user row, so the rows of each *)
(* schema never become fewer.                                               *)
(***************************************************************************)
Writes(p) == {i \in DOMAIN log[p] : log[p][i].op \in {"insert", "upsert"}}
ProfileReads(p) == {i \in DOMAIN log[p] : log[p][i].op = "select_profile"}
Ids(table) == {r.id : r \in table}

C11_Footprint ==
    \A p \in Procs :
        /\ Cardinality(Writes(p)) <= 1
        /\ \A i \in Writes(p) :
              /\ log[p][i].schema = Target(p)
              /\ \E j \in ProfileReads(p) : j < i
        /\ (pc[p] # "idle" /\ Undisturbed(p)) =>
              /\ users[Other(p)] = snap[p][Other(p)]
              /\ Cardinality(users[Target(p)]) <= Cardinality(snap[p][Target(p)]) + 1
        /\ (Done(p) /\ Succeeded(p) /\ ProfileReads(p) = {}) =>
              /\ Writes(p) = {}
              /\ Undisturbed(p) => users = snap[p]

C11_WriteFootprint ==
    /\ []C11_Footprint
    /\ [][\A s \in Schemas :
              /\ Ids(users[s]) \subseteq Ids(users'[s])
              /\ Cardinality(users'[s]) >= Cardinality(users[s])]_vars

\* a call that mirrored with one INSERT, and a call answered by the first lookup
C11_Witness ==
    \E p \in Procs :
        /\ Sequential(p) /\ Succeeded(p)
        /\ Cardinality(Writes(p)) = 1
        /\ Cardinality(users[Target(p)]) = Cardinality(snap[p][Target(p)]) + 1
        /\ snap[p][Target(p)] # {}

(***************************************************************************)
(* C12 as stated: during a resolve call, mirror-creation and error paths    *)
(* included, the resolver issues no commit and no rollback on the           *)
(* connection it was given.                                                 *)
(***************************************************************************)
C12_NoCommitNoRollback ==
    \A p \in Procs : \A i \in DOMAIN log[p] : log[p][i].op \notin {"commit", "rollback"}

(***************************************************************************)
(* C12 as amended: the resolver issues a commit or a rollback only inside   *)
(* mirror-creation: at most one commit, directly after its INSERT or upsert *)
(* has returned, and a rollback only as the last statement of the call,     *)
(* directly after a statement of mirror-creation raised or the INSERT       *)
(* returned no row; a call that does not enter mirror-creation issues       *)
(* neither.                                                                 *)
(***************************************************************************)
Boundaries(p) == {i \in DOMAIN log[p] : log[p][i].op \in {"commit", "rollback"}}

C12_BoundariesOnlyInMirrorCreation ==
    \A p \in Procs :
        /\ Cardinality({i \in Boundaries(p) : log[p][i].op = "commit"}) <= 1
        /\ \A i \in Boundaries(p) :
              /\ i > 1
              /\ \E j \in ProfileReads(p) : j < i
              /\ log[p][i].op = "commit" =>
                    /\ log[p][i - 1].op \in {"insert", "upsert"}
                    /\ log[p][i - 1].eff # "raised"
              /\ log[p][i].op = "rollback" =>
                    /\ log[p][i - 1].eff \in {"raised", "none"}
                    /\ i = Len(log[p])

\* a call that committed its INSERT and went on to the verifying lookup
C12_Witness ==
    \E p \in Procs :
        /\ Done(p) /\ Succeeded(p)
        /\ \E i \in Boundaries(p) :
              /\ log[p][i].op = "commit"
              /\ log[p][i - 1] = Entry("insert", "deals_india", "new")
              /\ i < Len(log[p])

(***************************************************************************)
(* C13: when the numeric identifier is absent from the target, the other    *)
(* schema has a user with that id and email e, and the target already has a *)
(* user with email e, resolve returns the id e has in the target (not the   *)
(* identifier, which is the id in the other schema) and writes nothing.     *)
(***************************************************************************)
Translated(p) ==
    /\ Numeric(p)
    /\ WithId(snap[p][Target(p)], int(loc[p].user_str)) = {}
    /\ \E s \in WithId(snap[p][Other(p)], int(loc[p].user_str)) :
          WithEmail(snap[p][Target(p)], s.email) # {}

C13_ForeignIdTranslatedByEmail ==
    \A p \in Procs :
        (Sequential(p) /\ Translated(p)) =>
            /\ res[p].error_response = NoError
            /\ res[p].user_id # int(loc[p].user_str)
            /\ \E s \in WithId(snap[p][Other(p)], int(loc[p].user_str)) :
               \E t \in WithEmail(snap[p][Target(p)], s.email) :
                  res[p].user_id = t.id
            /\ Writes(p) = {}
            /\ users = snap[p]

\* the translation done by each of the two resolvers ends in the same way
C13_Witness ==
    \E p \in Procs :
        /\ Sequential(p) /\ Translated(p) /\ Succeeded(p)
        /\ call[p].resolver = "resolve_user_id"
        /\ Len(log[p]) = 3

(***************************************************************************)
(* C14: a resolve call never modifies an existing user row. Whatever other  *)
(* requests interleave, a statement of a resolve call leaves every row of   *)
(* both users tables as it was and can only add a row for an email that was *)
(* absent; and when the target already holds the email at the time of the   *)
(* mirror-creation write, the call returns the id of that row.              *)
(***************************************************************************)
C14_ResolverNeverModifiesRow ==
    [][\A p \in Procs :
          (log'[p] # log[p]) =>
              /\ \A s \in Schemas :
                    /\ users[s] \subseteq users'[s]
                    /\ \A r \in users'[s] \ users[s] : WithEmail(users[s], r.email) = {}
              /\ (pc[p] \in {"ai_insert", "am_upsert", "ac_upsert"} /\ flt'[p] = NoFault) =>
                    \A r \in WithEmail(users[Target(p)], loc[p].source.email) :
                        res'[p].user_id = r.id]_vars

(***************************************************************************)
(* C15: whenever the write of mirror-creation meets a row of the target     *)
(* with the same email, it succeeds as a merge: that row keeps its id, the  *)
(* id is returned, no row is added, and the name and the preference fields  *)
(* of the row afterwards are those of the source row; in                    *)
(* auto_create_user_in_india, auto_create_user_in_master and                *)
(* auto_create_user_cross_schema alike.                                     *)
(***************************************************************************)
C15_MergeOnEmailConflict ==
    [][\A p \in Procs :
          (/\ pc[p] \in {"ai_insert", "am_upsert", "ac_upsert"}
           /\ log'[p] # log[p]
           /\ flt'[p] = NoFault) =>
              \A r \in WithEmail(users[Target(p)], loc[p].source.email) :
                  /\ res'[p] = [user_id |-> r.id, error_response |-> NoError]
                  /\ users'[Target(p)] = (users[Target(p)] \ {r}) \cup
                        {[r EXCEPT !.name = loc[p].source.name,
                                   !.prefs = loc[p].source.prefs]}]_vars

(***************************************************************************)
(* C16: mirrored copies are independent. Once a user has a row in both      *)
(* schemas, a PUT of user preferences in one schema changes the preference  *)
(* fields of that schema's row only and leaves the row of the other schema  *)
(* as it was; and a later resolve call for that user, in either schema,     *)
(* returns the id of the existing row and writes nothing (checked under     *)
(* SpecPrefs).                                                              *)
(***************************************************************************)
\* the emails of the rows the identifier of call p designates, when the user has
\* a row in both schemas as the call begins
InBoth(p) ==
    {e \in Emails :
        /\ WithEmail(snap[p][Target(p)], e) # {}
        /\ WithEmail(snap[p][Other(p)], e) # {}
        /\ IF ~Numeric(p) THEN loc[p].user_str = e
           ELSE \/ \E r \in WithId(snap[p][Target(p)], int(loc[p].user_str)) : r.email = e
                \/ /\ WithId(snap[p][Target(p)], int(loc[p].user_str)) = {}
                   /\ \E r \in WithId(snap[p][Other(p)], int(loc[p].user_str)) :
                         r.email = e}

C16_LaterResolveReadsOnly ==
    (Sequential(2) /\ pc[1] \in PutAnswered) =>
        \A e \in InBoth(2) :
            /\ res[2].error_response = NoError
            /\ \E r \in WithEmail(users[Target(2)], e) : res[2].user_id = r.id
            /\ Writes(2) = {}
            /\ users = snap[2]

C16_PutChangesOneRow ==
    (pc[1] = "done" /\ pc'[1] \in PutAnswered) =>
        /\ users'[Other(1)] = users[Other(1)]
        /\ \A r \in users[Target(1)] :
              IF r.id = res[1].user_id
              THEN \E preferences \in Prefs :
                      [r EXCEPT !.prefs = preferences] \in users'[Target(1)]
              ELSE r \in users'[Target(1)]
        /\ Cardinality(users'[Target(1)]) = Cardinality(users[Target(1)])

C16_CopiesIndependent ==
    /\ []C16_LaterResolveReadsOnly
    /\ [][C16_PutChangesOneRow]_vars

\* after a PUT changed one copy, the user is resolved in the other schema and the
\* two copies differ in their preferences
C16_Witness ==
    /\ pc[1] = "put_200"
    /\ Sequential(2) /\ Succeeded(2)
    /\ Target(2) # Target(1)
    /\ \E e \in InBoth(2) :
       \E r \in WithEmail(users[Target(1)], e), o \in WithEmail(users[Target(2)], e) :
          /\ r.id = res[1].user_id
          /\ o.id = res[2].user_id
          /\ r.prefs # o.prefs
          /\ r \notin snap[1][Target(1)]

(***************************************************************************)
(* C17: inside one resolve call the lookup in the target (by id or by       *)
(* email) comes before any read of the other schema; and in mirror-creation *)
(* the target is checked by email once more before the source profile is    *)
(* read, and the profile is read before the INSERT or upsert: no call reads *)
(* the source profile before that re-check, or writes without it.           *)
(***************************************************************************)
\* the lookups of the target by email issued before statement i: the lookup of
\* step 1c or 2a, then the re-check of mirror-creation
TargetEmailLookups(p, i) ==
    {j \in 1..(i - 1) : log[p][j].op = "select_email" /\ log[p][j].schema = Target(p)}

C17_StepOrder ==
    \A p \in Procs : \A i \in DOMAIN log[p] :
        /\ (log[p][i].schema = Other(p) /\ log[p][i].op \in {"select_id", "select_profile"}) =>
              \E j \in 1..(i - 1) :
                  /\ log[p][j].schema = Target(p)
                  /\ log[p][j].op \in {"select_id", "select_email"}
        /\ i \in ProfileReads(p) => Cardinality(TargetEmailLookups(p, i)) >= 2
        /\ i \in Writes(p) =>
              /\ \E j \in ProfileReads(p) : j < i
              /\ Cardinality(TargetEmailLookups(p, i)) >= 2

(***************************************************************************)
(* C18: once a storage statement of a resolve call has failed, the call     *)
(* issues no further lookup, profile read or write, and it returns an error *)
(* response with no user id: a failed step is never passed over.            *)
(***************************************************************************)
Raised(p) == {i \in DOMAIN log[p] : log[p][i].eff = "raised"}

C18_FailureShortCircuits ==
    \A p \in Procs : \A i \in Raised(p) :
        /\ Done(p)
        /\ res[p].user_id = 0
        /\ StatusCode(p) >= 500
        /\ res[p].error_response.error # ""
        /\ \A j \in (i + 1)..Len(log[p]) : log[p][j].op = "rollback"

\* the re-check of mirror-creation failed: the INSERT was not attempted
C18_Witness ==
    \E p \in Procs :
        /\ Done(p) /\ flt[p].kind = "connection"
        /\ \E i \in Raised(p) :
              /\ i = 3
              /\ log[p][i].op = "select_email"
              /\ log[p][i - 1].op = "select_profile"
        /\ Writes(p) = {}

(***************************************************************************)
(* C19: an identifier that, once trimmed, consists of decimal digits only   *)
(* is handled on the numeric path (its first statement is the lookup by     *)
(* id), any other identifier on the email path (its first statement is the  *)
(* lookup by email); and an identifier or discovered email handled on the   *)
(* email path is matched against the email column only: the source row read *)
(* for it, and the row the call returns, carry that email (checked under    *)
(* SpecClassify).                                                           *)
(***************************************************************************)
C19_IdentifierClassification ==
    \A p \in Procs :
        /\ log[p] # <<>> =>
              log[p][1].op = (IF strip(call[p].ident) \in NumericIdents
                              THEN "select_id" ELSE "select_email")
        /\ loc[p].source # NoRow => loc[p].source.email = loc[p].email
        /\ (Sequential(p) /\ loc[p].email # "") =>
              \A r \in WithId(users[Target(p)], res[p].user_id) : r.email = loc[p].email

(***************************************************************************)
(* Vocabulary of the bookmark properties                                    *)
(***************************************************************************)
Replied(p) == pc[p] = "replied"
\* the request is a GET whose path contains '/bookmarks/' and '/check'
CheckRequest(p) ==
    /\ req[p].method = "GET"
    /\ HasSegmentSlash(req[p].path, "bookmarks")
    /\ HasSegment(req[p].path, "check")
\* the user was resolved and the statement of the handler did not raise
Answered(p) == Replied(p) /\ res[p].error_response = NoError /\ reply[p].statusCode = 200

(***************************************************************************)
(* C20: a GET request whose path contains '/bookmarks/' and '/check' (the   *)
(* legacy action check_bookmark is rewritten to such a path) is answered    *)
(* with a body that holds the flag 'bookmarked', true exactly when a row of *)
(* user_bookmarks exists for the resolved user id and the given product id, *)
(* and not with the list of the user's bookmarks (checked under             *)
(* SpecBookmarks).                                                          *)
(***************************************************************************)
C20_CheckEndpoint ==
    \A p \in Procs :
        (CheckRequest(p) /\ Answered(p)) =>
            /\ reply[p].kind = "check"
            /\ reply[p].bookmarked =
                  (SelectBookmark(call[p].schema, res[p].user_id, req[p].productId) # {})

C23_Referenced ==
    \A s \in Schemas : \A b \in bookmarks[s] : WithId(users[s], b.user_id) # {}

C23_BookmarkReferentialIntegrity ==
    /\ []C23_Referenced
    /\ [][bookmarks' # bookmarks =>
             \E p \in Procs : Done(p) /\ Succeeded(p) /\ Replied(p)']_vars

\* a bookmark was added for a user whom the request itself mirrored into the schema
C23_Witness ==
    \E p \in Procs :
        /\ Replied(p) /\ reply[p].kind = "added"
        /\ \E i \in DOMAIN log[p] : log[p][i].op = "upsert" /\ log[p][i].eff = "new"
        /\ \E b \in bookmarks[call[p].schema] : b.user_id = res[p].user_id

\* the rows of a user_bookmarks table for one user and one product
Pair(table, user_id, product_id) ==
    {b \in table : b.user_id = user_id /\ b.product_id = product_id}

(***************************************************************************)
(* C24: adding a bookmark is idempotent. A user_bookmarks table never holds *)
(* two rows for one (user_id, product_id) pair; when an add request is      *)
(* answered, exactly one row exists for its pair and carries the product    *)
(* data of that request, however many add requests, one after another or    *)
(* at once, came before; when a remove request is answered, no row for its  *)
(* pair remains, and the flag 'removed' of the response is true exactly     *)
(* when a row existed (checked under SpecBookmarkRace).                     *)
(***************************************************************************)
C24_OneRowPerPair ==
    \A s \in Schemas : \A a, b \in bookmarks[s] :
        (a.user_id = b.user_id /\ a.product_id = b.product_id) => a = b

C24_AddIdempotent ==
    /\ []C24_OneRowPerPair
    /\ [][\A p \in Procs :
            (Done(p) /\ Replied(p)' /\ reply'[p].statusCode = 200) =>
                LET before == Pair(bookmarks[call[p].schema], res[p].user_id,
                                   req[p].productId)
                    after == Pair(bookmarks'[call[p].schema], res[p].user_id,
                                  req[p].productId)
                IN /\ reply'[p].kind = "added" =>
                         /\ Cardinality(after) = 1
                         /\ \A b \in after : b.product_data = req[p].product_data
                   /\ reply'[p].kind = "removed" =>
                         /\ after = {}
                         /\ reply'[p].removed = (before # {})]_vars

\* two add requests for one pair with different product data were both answered,
\* and then the pair has one row
C24_Witness ==
    \E p, q \in Procs :
        /\ p # q /\ Replied(p) /\ Replied(q)
        /\ reply[p].kind = "added" /\ reply[q].kind = "added"
        /\ res[p].user_id = res[q].user_id /\ req[p].productId = req[q].productId
        /\ req[p].product_data # req[q].product_data
        /\ Cardinality(Pair(bookmarks[call[p].schema], res[p].user_id,
                            req[p].productId)) = 1

(***************************************************************************)
(* Vocabulary of the signup properties                                      *)
(***************************************************************************)
AuthAnswered(p) == pc[p] = "answered"
\* no storage call of the request failed, other than by the unique constraint on email
NoStorageFailure(p) == flt[p].kind \in {"", "unique"}

(***************************************************************************)
(* C27: signup never duplicates an email. A signup request whose email is   *)
(* in the users table of its schema when its existence check runs is        *)
(* answered 409 and writes nothing; no users table ever holds two rows with *)
(* one email; and once a signup or social-login request has been answered   *)
(* without a storage failure, whatever other signup or social-login request *)
(* ran at the same time, its schema holds exactly one row with its email    *)
(* (checked under SpecSignup, where storage enforces unique emails).        *)
(***************************************************************************)
C27_OneRowPerEmail ==
    /\ \A s \in Schemas : \A a, b \in users[s] : a.email = b.email => a = b
    /\ \A p \in Procs :
          (AuthAnswered(p) /\ NoStorageFailure(p)) =>
              Cardinality(WithEmail(users[call[p].schema], call[p].ident)) = 1

C27_SignupNeverDuplicates ==
    /\ []C27_OneRowPerEmail
    /\ [][\A p \in Procs :
            (/\ pc[p] = "su_check" /\ pc'[p] # "su_check"
             /\ WithEmail(users[call[p].schema], call[p].ident) # {}
             /\ flt'[p] = NoFault) =>
                /\ reply'[p].statusCode = 409
                /\ AuthAnswered(p)'
                /\ users' = users]_vars

\* a signup and another request for the same email and schema both passed their
\* existence check; one inserted the row, the other was stopped by the constraint
C27_Witness ==
    \E p, q \in Procs :
        /\ p # q /\ AuthAnswered(p) /\ AuthAnswered(q)
        /\ call[p].resolver = "signup"
        /\ call[p].ident = call[q].ident /\ call[p].schema = call[q].schema
        /\ flt[p].kind = "unique"
        /\ \E i \in DOMAIN log[q] : log[q][i].op = "insert" /\ log[q][i].eff = "new"
        /\ Cardinality(WithEmail(users[call[p].schema], call[p].ident)) = 1

(***************************************************************************)
(* C21: promo anti-repeat. A product that a run of run_update labelled      *)
(* 'deal_of_the_day' or 'deals_now_pick' is not labelled with either label  *)
(* by a later run that starts less than 7 days afterwards, also when the    *)
(* write of the promo-history record failed (checked under SpecPromo).      *)
(***************************************************************************)
C21_AntiRepeat ==
    \A first, later \in labelled :
        (first.product_id = later.product_id /\ first.run < later.run) =>
            later.day - first.day >= HistoryDays

\* the last run of run_update returned, with success True or with success False
RunSucceeded == run.pc = "idle" /\ run.result = "success"
RunFailed == run.pc = "idle" /\ run.result = "failure"
Selected == (run.picks \cup {run.new_deal}) \ {"None"}

(***************************************************************************)
(* C25: promo label cardinality. After every successful run_update at most  *)
(* one product carries 'deal_of_the_day', at most three carry               *)
(* 'deals_now_pick', the deal of the day is not among the picks, and no     *)
(* product that carried either label before the run still carries it unless *)
(* the run selected it again (checked under SpecPromo).                     *)
(***************************************************************************)
C25_LabelCardinality ==
    RunSucceeded =>
        /\ Cardinality(WithLabel(promodb, "deal_of_the_day")) <= DealLimit
        /\ Cardinality(WithLabel(promodb, "deals_now_pick")) <= PickLimit
        /\ run.new_deal \notin run.picks
        /\ \A x \in PromoProducts :
              (run.before.label[x] \in PromoLabels /\ promodb.label[x] \in PromoLabels)
                  => x \in Selected

(***************************************************************************)
(* C26: run_update is all-or-nothing. When schema verification, a clearing  *)
(* step, the selection of the deal of the day or the selection of the picks *)
(* raises, the run is rolled back and reports success False, and every      *)
(* promo_label and the promo-history table are as they were before the run: *)
(* a failed run never leaves the labels cleared (checked under SpecPromo).  *)
(***************************************************************************)
RaisingSteps == {"verify", "clear_deal", "clear_picks", "deal", "picks"}

C26_FailedRunUntouched == RunFailed => promodb = run.before

C26_AllOrNothing ==
    /\ []C26_FailedRunUntouched
    /\ [][(run.pc \in RaisingSteps /\ run'.pc = "idle") =>
            /\ run'.result = "failure"
            /\ promodb' = run.before
            /\ promodb' = promodb]_vars

\* a run cleared the labels of the run before, selected a deal of the day and then
\* failed: the labels of the run before are still there
C26_Witness ==
    /\ RunFailed
    /\ run.cleared_count > 0 /\ run.cleared_deals_now_pick > 0
    /\ run.new_deal # "None"
    /\ WithLabel(promodb, "deal_of_the_day") # {}
    /\ WithLabel(promodb, "deals_now_pick") # {}
    /\ promodb = run.before

\* the last call of move_to_production returned
MoveReturned == move.pc = "idle" /\ move.success # "none"
CallKeys == {move.products_data[i].product_key : i \in DOMAIN move.products_data}
\* the products of the call that the call put into the product table
ReachedProduction == {k \in CallKeys : production[k] = move.n}

\* a key leaves product_staging only when its upsert succeeded earlier in the call
C28_DeletedOnlyUpserted ==
    MoveReturned =>
        \A k \in move.before.staging \ staging : k \in move.successful_product_keys

\* a product whose upsert failed stays in product_staging and is in failed_products
C28_FailedStays ==
    MoveReturned =>
        \A k \in CallKeys \ move.successful_product_keys :
            /\ k \in move.failed_products
            /\ k \in move.before.staging => k \in staging

\* success is reported exactly when a product of the call was upserted
C28_SuccessIffUpserted ==
    MoveReturned => (move.success = "True" <=> ReachedProduction # {})

(***************************************************************************)
(* C28: move_to_production removes from staging only what reached           *)
(* production. A product_key is deleted from product_staging only if that   *)
(* product's upsert succeeded earlier in the call, a product whose upsert   *)
(* failed stays in staging and is listed among the failed products, and the *)
(* call reports success exactly when at least one product was upserted      *)
(* (checked under SpecMove).                                                *)
(***************************************************************************)
C28_RemovesOnlyWhatReachedProduction ==
    /\ C28_DeletedOnlyUpserted
    /\ C28_FailedStays
    /\ C28_SuccessIffUpserted

====
